---- MODULE Spec2Model ----
(***************************************************************************)
(* Robotic automation advisor: the cost-benefit computation and the        *)
(* recommendation engine of backend/services/robotics_analysis_service.py, *)
(* with the request boundary of backend/app/main.py.                       *)
(*                                                                         *)
(* Numbers are exact rationals <<n, d>> (d > 0, lowest terms).  A Python   *)
(* value read from JSON is a record [k, v]: k is its kind ("num" a number, *)
(* "null" None, "absent" a missing key, "str" a non-numeric string, "huge" *)
(* an int too large for float()), v its rational when k = "num".           *)
(***************************************************************************)
EXTENDS Integers, Sequences, FiniteSets, TLC

\* ------------------------------------------------------------------------
\* Bounds of the model
\* ------------------------------------------------------------------------
MaxOptions == 2

\* ------------------------------------------------------------------------
\* Program constants
\* ------------------------------------------------------------------------
weeks_per_year == 52
MinutesPerHour == 60
PercentDivisor == 100

\* ------------------------------------------------------------------------
\* Exact rational arithmetic (Python float arithmetic without rounding).
\* <<1, 0>> and <<-1, 0>> are float('inf') and float('-inf'), <<0, 0>> is nan.
\* ------------------------------------------------------------------------
Abs(x) == IF x < 0 THEN -x ELSE x
Sgn(x) == IF x > 0 THEN 1 ELSE IF x < 0 THEN -1 ELSE 0

RECURSIVE Gcd(_, _)
Gcd(a, b) == IF b = 0 THEN a ELSE Gcd(b, a % b)

Norm(n, d) ==
    LET s == IF d < 0 THEN -1 ELSE 1
        g == Gcd(Abs(n), Abs(d))
    IN  IF d = 0 THEN <<Sgn(n), 0>>
        ELSE IF n = 0 THEN <<0, 1>>
        ELSE <<(s * n) \div g, (s * d) \div g>>

Inf == <<1, 0>>
NaN == <<0, 0>>
IsNaN(a) == a = NaN
IsInf(a) == a[2] = 0 /\ a[1] # 0
\* not (math.isnan(a) or math.isinf(a))
IsFinite(a) == a[2] # 0

R(n) == <<n, 1>>
Frac(n, d) == Norm(n, d)
RAdd(a, b) ==
    IF IsInf(a) /\ IsInf(b) THEN (IF a = b THEN a ELSE NaN)
    ELSE Norm(a[1] * b[2] + b[1] * a[2], a[2] * b[2])
RSub(a, b) == RAdd(a, <<-b[1], b[2]>>)
RMul(a, b) == Norm(a[1] * b[1], a[2] * b[2])
RDiv(a, b) == Norm(a[1] * b[2] * Sgn(b[1]), a[2] * Abs(b[1]))
RLt(a, b) ==
    IF IsInf(a) /\ IsInf(b) THEN a[1] < b[1]
    ELSE a[1] * b[2] < b[1] * a[2]
RLe(a, b) ==
    IF IsNaN(a) \/ IsNaN(b) THEN FALSE
    ELSE IF IsInf(a) /\ IsInf(b) THEN a[1] <= b[1]
    ELSE a[1] * b[2] <= b[1] * a[2]
RPos(a) == a[1] > 0
RFloor(a) == a[1] \div a[2]

\* ------------------------------------------------------------------------
\* Python values
\* ------------------------------------------------------------------------
Num(q) == [k |-> "num", v |-> q]
Null == [k |-> "null", v |-> R(0)]
Absent == [k |-> "absent", v |-> R(0)]
Str == [k |-> "str", v |-> R(0)]
Huge == [k |-> "huge", v |-> R(0)]
NA == [k |-> "N/A", v |-> R(0)]
Raised == [k |-> "raised", v |-> R(0)]

\* dict.get(key): a missing key and a null both read as None
IsNone(x) == x.k \in {"null", "absent"}
\* isinstance(x, (int, float))
IsNumber(x) == x.k \in {"num", "huge"}

\* float(x): "ok" with the value, or the exception it raises
FloatOf(x) ==
    CASE x.k = "num" -> [exc |-> "ok", v |-> x.v]
      [] x.k = "str" -> [exc |-> "ValueError", v |-> R(0)]
      [] x.k = "huge" -> [exc |-> "OverflowError", v |-> R(0)]
      [] OTHER -> [exc |-> "TypeError", v |-> R(0)]

\* ------------------------------------------------------------------------
\* calculate_effective_robot_cost (RobotCostModel)
\* ------------------------------------------------------------------------
\* lines 52-71: purchase price and end effector percent, 0.0 unless the value
\* converts; the inner try catches ValueError and TypeError only
CapexTermFloat(x) ==
    IF IsNone(x) THEN [exc |-> "ok", v |-> R(0)]
    ELSE LET f == FloatOf(x)
         IN  IF f.exc \in {"ValueError", "TypeError"}
             THEN [exc |-> "ok", v |-> R(0)]
             ELSE f

\* the first conversion of a sequence that does not succeed, "ok" if all do
RECURSIVE FirstExc(_)
FirstExc(fs) ==
    IF fs = <<>> THEN "ok"
    ELSE IF Head(fs).exc # "ok" THEN Head(fs).exc
    ELSE FirstExc(Tail(fs))

\* line 87
NonPositiveLife(T, H) == RLe(T, R(0)) \/ RLe(H, R(0))

\* line 90
NonPositiveRate(G) == RLe(RAdd(R(1), G), R(0))

\* lines 45-47
OpexMissing(O) == IsNone(O)

\* lines 99-118 with the efficiency adjustment of line 118 as a product
EffectiveCostFormula_GainProductVariant(C, E, T, H, G, O) ==
    LET total_capex == RMul(C, RAdd(R(1), E))
        total_operating_minutes_in_life ==
            RMul(RMul(RMul(T, R(weeks_per_year)), H), R(MinutesPerHour))
        capex_per_min ==
            IF RPos(total_operating_minutes_in_life)
            THEN RDiv(total_capex, total_operating_minutes_in_life)
            ELSE R(0)
        robot_raw_cost_per_min == RAdd(capex_per_min, O)
    IN  RMul(robot_raw_cost_per_min, RAdd(R(1), G))

\* lines 99-118, on converted values
EffectiveCostFormula(C, E, T, H, G, O) ==
    LET total_capex == RMul(C, RAdd(R(1), E))
        total_operating_minutes_in_life ==
            RMul(RMul(RMul(T, R(weeks_per_year)), H), R(MinutesPerHour))
        capex_per_min ==
            IF RPos(total_operating_minutes_in_life)
            THEN RDiv(total_capex, total_operating_minutes_in_life)
            ELSE R(0)
        robot_raw_cost_per_min == RAdd(capex_per_min, O)
    IN  RDiv(robot_raw_cost_per_min, RAdd(R(1), G))

\* the whole function: a number, "N/A", or an exception the except clause
\* (ValueError, TypeError, ZeroDivisionError) does not catch
calculate_effective_robot_cost(robot_info, depreciation_years, hours_per_week, efficiency_gain) ==
    LET O == robot_info.op_cost_per_min
        Cf == CapexTermFloat(robot_info.purchase_price)
        Ef == CapexTermFloat(robot_info.end_effector_cost_percent)
        Tf == FloatOf(depreciation_years)
        Hf == FloatOf(hours_per_week)
        Gf == FloatOf(efficiency_gain)
        Of == FloatOf(O)
        exc == FirstExc(<<Cf, Ef, Tf, Hf, Gf, Of>>)
    IN  IF OpexMissing(O) THEN NA
        ELSE IF exc = "OverflowError" THEN Raised
        ELSE IF exc # "ok" THEN NA
        ELSE IF NonPositiveLife(Tf.v, Hf.v) THEN NA
        ELSE IF NonPositiveRate(Gf.v) THEN NA
        ELSE Num(EffectiveCostFormula(Cf.v, Ef.v, Tf.v, Hf.v, Gf.v, Of.v))

\* ------------------------------------------------------------------------
\* Python dicts of the pipeline
\*   task        [id, actor_type]
\*   robot       [robot_name, purchase_price, op_cost_per_min,
\*                end_effector_cost_percent]           (values as above)
\*   assignment  [keys, task_id, robot_name]           keys: the keys present
\*   option      [keys, option_id, assignments]
\* ------------------------------------------------------------------------
PyNone == "<None>"
UnknownOption == "Unknown Option"
No_Automation == "No_Automation"

\* truth value of an option id (None and the empty string are false)
Truthy(x) == x \notin {PyNone, ""}

EmptyMap == [x \in {} |-> 0]
Range(f) == {f[x] : x \in DOMAIN f}

RECURSIVE SumSeq(_)
SumSeq(qs) == IF qs = <<>> THEN R(0) ELSE RAdd(Head(qs), SumSeq(Tail(qs)))

\* opt.get('option_id')
OptGetId(opt) == IF "option_id" \in opt.keys THEN opt.option_id ELSE PyNone
\* option.get('option_id', 'Unknown Option'), line 611
OptIdOrUnknown(opt) == IF "option_id" \in opt.keys THEN opt.option_id ELSE UnknownOption
\* option.get('assignments', [])
OptAssignments(opt) == IF "assignments" \in opt.keys THEN opt.assignments ELSE <<>>

\* ------------------------------------------------------------------------
\* determine_recommendation_new (CycleMetrics, SavingsProjector,
\* RecommendationSelector)
\* ------------------------------------------------------------------------
\* line 156
HumanTasks(tasks) == SelectSeq(tasks, LAMBDA t : t.actor_type = "human")

\* lines 157-160 with every task counted, whatever its actor_type
CyclesPerHour_AllTasksVariant(tasks) ==
    LET cycle_time_mins == Len(tasks)
    IN  IF cycle_time_mins > 0 THEN Frac(MinutesPerHour, cycle_time_mins) ELSE R(1)

\* lines 157-160
CyclesPerHour(tasks) ==
    LET cycle_time_mins == Len(HumanTasks(tasks))
    IN  IF cycle_time_mins > 0 THEN Frac(MinutesPerHour, cycle_time_mins) ELSE R(1)

\* line 160 without the weeks of the year
CyclesPerYear_PerWeekVariant(tasks, hours_per_week) ==
    RMul(CyclesPerHour(tasks), hours_per_week)

\* line 160
CyclesPerYear(tasks, hours_per_week) ==
    RMul(RMul(CyclesPerHour(tasks), hours_per_week), R(weeks_per_year))

\* lines 175-180: robot_name -> record, a later record of the same name wins
RECURSIVE RobotMetadata(_)
RobotMetadata(available_robots) ==
    IF available_robots = <<>> THEN EmptyMap
    ELSE LET n == Len(available_robots)
             last == available_robots[n]
             rest == RobotMetadata(SubSeq(available_robots, 1, n - 1))
         IN  IF ~Truthy(last.robot_name) THEN rest
             ELSE [x \in DOMAIN rest \cup {last.robot_name} |->
                      IF x = last.robot_name THEN last ELSE rest[x]]

\* lines 187-191: index of the first option with this id, 0 when there is none
RECURSIVE FindOptionFrom(_, _, _)
FindOptionFrom(automation_options, option_id, i) ==
    IF i > Len(automation_options) THEN 0
    ELSE IF OptGetId(automation_options[i]) = option_id THEN i
    ELSE FindOptionFrom(automation_options, option_id, i + 1)

FindOption(automation_options, option_id) == FindOptionFrom(automation_options, option_id, 1)

\* line 200: assign['task_id'] or assign['robot_name'] of a dict without the key
AssignmentKeyError(assignments) ==
    \E i \in 1..Len(assignments) : ~({"task_id", "robot_name"} \subseteq assignments[i].keys)

\* line 200: {task_id: robot_name}, a later assignment of the same task wins
RECURSIVE TaskToRobotMap(_)
TaskToRobotMap(assignments) ==
    IF assignments = <<>> THEN EmptyMap
    ELSE LET n == Len(assignments)
             last == assignments[n]
             rest == TaskToRobotMap(SubSeq(assignments, 1, n - 1))
         IN  [x \in DOMAIN rest \cup {last.task_id} |->
                 IF x = last.task_id THEN last.robot_name ELSE rest[x]]

\* lines 203-208: robot_name -> numeric effective cost
RECURSIVE RobotCostMap(_)
RobotCostMap(robot_costs) ==
    IF robot_costs = <<>> THEN EmptyMap
    ELSE LET n == Len(robot_costs)
             last == robot_costs[n]
             rest == RobotCostMap(SubSeq(robot_costs, 1, n - 1))
         IN  IF ~IsNumber(last.robot_effective_cost_per_human_min) THEN rest
             ELSE [x \in DOMAIN rest \cup {last.robot_name} |->
                      IF x = last.robot_name
                      THEN last.robot_effective_cost_per_human_min.v
                      ELSE rest[x]]

\* lines 215-232: what one human task costs per cycle with the option
TaskCostWithAutomation(task, task_to_robot_map, robot_cost_map, human_cost_min) ==
    IF task.id \in DOMAIN task_to_robot_map
    THEN IF task_to_robot_map[task.id] \in DOMAIN robot_cost_map
         THEN robot_cost_map[task_to_robot_map[task.id]]
         ELSE human_cost_min
    ELSE human_cost_min

RECURSIVE CostWithAutomationPerCycle(_, _, _, _)
CostWithAutomationPerCycle(human_tasks, task_to_robot_map, robot_cost_map, human_cost_min) ==
    IF human_tasks = <<>> THEN R(0)
    ELSE RAdd(TaskCostWithAutomation(Head(human_tasks), task_to_robot_map,
                                     robot_cost_map, human_cost_min),
              CostWithAutomationPerCycle(Tail(human_tasks), task_to_robot_map,
                                         robot_cost_map, human_cost_min))

\* lines 356-360
NumTasksWithSavings(task_to_robot_map, robot_cost_map, human_cost_min) ==
    Cardinality({t \in DOMAIN task_to_robot_map :
                    /\ task_to_robot_map[t] \in DOMAIN robot_cost_map
                    /\ RLt(robot_cost_map[task_to_robot_map[t]], human_cost_min)})

\* lines 265-274: the keywords found in robot_name.lower(), for the robot
\* names of this model
KeywordsIn(robot_name) ==
    CASE robot_name = "Digit-2" -> {"digit"}
      [] robot_name = "Atlas_JVRC" -> {"atlas", "jvrc"}
      [] robot_name = "JVRC_Digit" -> {"jvrc", "digit"}
      [] robot_name = "GGC_TestModel" -> {"ggc", "testmodel"}
      [] OTHER -> {}

AtlasPrice == 250000
JvrcPrice == 150000
DigitPrice == 200000
GgcPrice == 180000
ConservativePrice == 100000
DefaultEndEffectorPct == Frac(1, 4)

\* lines 265-274
DefaultPurchasePrice(robot_name) ==
    LET kw == KeywordsIn(robot_name)
    IN  IF "atlas" \in kw THEN AtlasPrice
        ELSE IF "jvrc" \in kw THEN JvrcPrice
        ELSE IF "digit" \in kw THEN DigitPrice
        ELSE IF "ggc" \in kw \/ "testmodel" \in kw THEN GgcPrice
        ELSE ConservativePrice

\* lines 250-280: one robot's purchase_price * (1 + end_effector_cost_percent),
\* or the exception the arithmetic raises
RobotTotalCost(robot_name, robot_metadata) ==
    LET known == robot_name \in DOMAIN robot_metadata
        price0 == IF known THEN robot_metadata[robot_name].purchase_price ELSE Absent
        pct0 == IF known THEN robot_metadata[robot_name].end_effector_cost_percent ELSE Absent
        price == IF IsNone(price0) \/ ~IsNumber(price0)
                 THEN Num(R(DefaultPurchasePrice(robot_name)))
                 ELSE price0
        pct == IF pct0.k = "absent" THEN Num(DefaultEndEffectorPct) ELSE pct0
    IN  IF pct.k \in {"null", "str"} THEN [exc |-> "TypeError", v |-> R(0)]
        ELSE IF price.k = "huge" \/ pct.k = "huge" THEN [exc |-> "OverflowError", v |-> R(0)]
        ELSE [exc |-> "ok", v |-> RMul(price.v, RAdd(R(1), pct.v))]

\* lines 243-280 as a sequence of per-robot terms over the set of robots used
RECURSIVE RobotTotalCosts(_, _)
RobotTotalCosts(unique_robots, robot_metadata) ==
    IF unique_robots = {} THEN <<>>
    ELSE LET r == CHOOSE x \in unique_robots : TRUE
         IN  <<RobotTotalCost(r, robot_metadata)>>
               \o RobotTotalCosts(unique_robots \ {r}, robot_metadata)

\* lines 316-328: an entry of the chart data that is not a finite number is
\* replaced by the value computed again; only the year 0 entries exist when
\* this runs
VerifiedEntry(cost, recomputed) == IF IsFinite(cost) THEN cost ELSE recomputed

\* lines 335-342 with the annual cost added once, whatever the year
CumulativeCosts_SingleYearVariant(year0, annual, years) ==
    [i \in 1..(IF years <= 0 THEN 1 ELSE years + 1) |->
        IF i = 1 THEN year0 ELSE RAdd(year0, annual)]

\* lines 298-342: cumulative cost of the option for years 0..int(T)
RECURSIVE CumulativeCosts(_, _, _)
CumulativeCosts(year0, annual, years) ==
    IF years <= 0 THEN <<VerifiedEntry(year0, year0)>>
    ELSE Append(CumulativeCosts(year0, annual, years - 1),
                RAdd(year0, RMul(annual, R(years))))

\* lines 183-370: one cost comparison result evaluated; status "skip" when no
\* automation option has its id, "raise" when the evaluation raises
EvalOption(option_result, human_cost_min, automation_options, tasks, depreciation_years, hours_per_week, robot_metadata) ==
    LET option_id == option_result.option_id
        found == FindOption(automation_options, option_id)
        assignments == OptAssignments(automation_options[found])
        num_automated_tasks == Len(assignments)
        task_to_robot_map == TaskToRobotMap(assignments)
        robot_cost_map == RobotCostMap(option_result.robot_cost_comparison)
        human_tasks == HumanTasks(tasks)
        total_human_cost_per_cycle == RMul(R(Len(human_tasks)), human_cost_min)
        total_cost_with_automation_per_cycle ==
            CostWithAutomationPerCycle(human_tasks, task_to_robot_map,
                                       robot_cost_map, human_cost_min)
        savings_per_cycle ==
            RSub(total_human_cost_per_cycle, total_cost_with_automation_per_cycle)
        cycles_per_year == CyclesPerYear(tasks, hours_per_week)
        annual_human_cost == RMul(total_human_cost_per_cycle, cycles_per_year)
        annual_cost_with_automation ==
            RMul(total_cost_with_automation_per_cycle, cycles_per_year)
        annual_savings == RMul(savings_per_cycle, cycles_per_year)
        capex_terms == RobotTotalCosts(Range(task_to_robot_map), robot_metadata)
        capex_exc == FirstExc(capex_terms)
        robot_capex == SumSeq([i \in 1..Len(capex_terms) |-> capex_terms[i].v])
        years == RFloor(depreciation_years)
        percent_savings ==
            IF RPos(total_human_cost_per_cycle)
            THEN RMul(RDiv(savings_per_cycle, total_human_cost_per_cycle), R(PercentDivisor))
            ELSE R(0)
    IN  IF found = 0 \/ automation_options[found].keys = {} THEN [status |-> "skip"]
        ELSE IF AssignmentKeyError(assignments) THEN [status |-> "raise", exc |-> "KeyError"]
        ELSE IF capex_exc # "ok" THEN [status |-> "raise", exc |-> capex_exc]
        ELSE [status |-> "ok",
              projection |->
                 [option_id |-> option_id,
                  baseline_cost_per_cycle |-> total_human_cost_per_cycle,
                  robot_cost_per_cycle |-> total_cost_with_automation_per_cycle,
                  annual_baseline_cost |-> annual_human_cost,
                  annual_cost_with_automation |-> annual_cost_with_automation,
                  robot_capex |-> robot_capex,
                  cumulative_costs_by_year |->
                     CumulativeCosts(robot_capex, annual_cost_with_automation, years),
                  baseline_cumulative_costs_by_year |->
                     CumulativeCosts(R(0), annual_human_cost, years)],
              savings |->
                 [option_id |-> option_id,
                  num_automated_tasks |-> num_automated_tasks,
                  num_tasks_with_savings |->
                     NumTasksWithSavings(task_to_robot_map, robot_cost_map, human_cost_min),
                  savings_per_cycle |-> savings_per_cycle,
                  annual_savings |-> annual_savings,
                  percent_savings |-> percent_savings]]

\* line 165 testing only for the empty list
NoValidData_IgnoreCostVariant(cost_benefit_results, human_cost_min) ==
    cost_benefit_results = <<>>

\* line 165
NoValidData(cost_benefit_results, human_cost_min) ==
    cost_benefit_results = <<>> \/ RLe(human_cost_min, R(0))

\* line 375; best.has is false while highest_total_savings is -inf
IsNewBest(annual_savings, best) ==
    /\ ~best.has \/ RLt(best.highest_total_savings, annual_savings)
    /\ RPos(annual_savings)

\* lines 147-149 and 372-384 over the evaluated options, in order
RECURSIVE BestOption(_)
BestOption(option_savings) ==
    IF option_savings = <<>>
    THEN [has |-> FALSE, best_option_id |-> PyNone, highest_total_savings |-> R(0)]
    ELSE LET n == Len(option_savings)
             last == option_savings[n]
             best == BestOption(SubSeq(option_savings, 1, n - 1))
         IN  IF IsNewBest(last.annual_savings, best)
             THEN [has |-> TRUE, best_option_id |-> last.option_id,
                   highest_total_savings |-> last.annual_savings]
             ELSE best

\* lines 388-407 with None for the sentinel of the else branch
RecommendedId_NoSentinelVariant(best) ==
    IF Truthy(best.best_option_id) /\ best.has /\ RPos(best.highest_total_savings)
    THEN best.best_option_id
    ELSE PyNone

\* lines 388-407
RecommendedId(best) ==
    IF Truthy(best.best_option_id) /\ best.has /\ RPos(best.highest_total_savings)
    THEN best.best_option_id
    ELSE No_Automation

\* lines 182-384: every cost comparison result evaluated, in order
EvalAll(cost_benefit_results, human_cost_min, automation_options, tasks, depreciation_years, hours_per_week, robot_metadata) ==
    [i \in 1..Len(cost_benefit_results) |->
        EvalOption(cost_benefit_results[i], human_cost_min, automation_options, tasks,
                   depreciation_years, hours_per_week, robot_metadata)]

Evaluated(evals) == SelectSeq(evals, LAMBDA e : e.status = "ok")

RaisedIn(evals) == SelectSeq(evals, LAMBDA e : e.status = "raise")

\* the whole function.  exc is "ok" or the exception that escapes; early marks
\* the return of lines 165-169, which carries no option_savings and no
\* annual_projections
determine_recommendation_new(cost_benefit_results, human_cost_min, automation_options, tasks, depreciation_years, hours_per_week, available_robots) ==
    LET evals == EvalAll(cost_benefit_results, human_cost_min, automation_options, tasks,
                         depreciation_years, hours_per_week,
                         RobotMetadata(available_robots))
        ok == Evaluated(evals)
        option_savings == [i \in 1..Len(ok) |-> ok[i].savings]
        annual_projections == [i \in 1..Len(ok) |-> ok[i].projection]
    IN  IF NoValidData(cost_benefit_results, human_cost_min)
        THEN [exc |-> "ok", early |-> TRUE, recommended_option_id |-> PyNone,
              option_savings |-> <<>>, annual_projections |-> <<>>]
        ELSE IF RaisedIn(evals) # <<>>
        THEN [exc |-> RaisedIn(evals)[1].exc, early |-> FALSE,
              recommended_option_id |-> PyNone,
              option_savings |-> <<>>, annual_projections |-> <<>>]
        ELSE [exc |-> "ok", early |-> FALSE,
              recommended_option_id |-> RecommendedId(BestOption(option_savings)),
              option_savings |-> option_savings,
              annual_projections |-> annual_projections]

\* ------------------------------------------------------------------------
\* The option generator's text and its parsing (perform_full_analysis,
\* lines 513-601).  A text is a sequence of tokens, each a run of characters:
\*   "{" "}" "[" "]"   the character itself
\*   "K"    "automation_options": [     (the key, a colon, one space, "[")
\*   "k"    "automation_options":[      (the same JSON without the space)
\*   "N"    "automation_options": 5     (the key with a value that is no list)
\*   "s"    a string literal; "s{" and "s}" string literals whose content
\*          holds the character { or }
\*   "!"    characters that are not JSON
\*   "fence_json"  three backquotes and json    "fence"  three backquotes
\*   other  the members "option_id": ..., "assignments": [...] of the option
\*          of that name (OptionOfAtom)
\* NoText is the value None.
\* ------------------------------------------------------------------------
NoText == <<"<None>">>
EmptyOption == [keys |-> {}, option_id |-> PyNone, assignments |-> <<>>]

StructureTokens == {"{", "}", "[", "]", "K", "k", "N", "s", "s{", "s}", "!", "fence_json", "fence"}
IsAtom(tok) == tok \notin StructureTokens

\* the characters the brace counter of lines 553-558 sees
HasOpenBrace(tok) == tok \in {"{", "s{"}
HasCloseBrace(tok) == tok \in {"}", "s}"}

\* lines 519-527
StripFences(text) ==
    LET n == Len(text)
        body == SubSeq(text, 2, n)
        m == Len(body)
    IN  IF n > 0 /\ text[1] \in {"fence_json", "fence"}
        THEN IF m > 0 /\ body[m] = "fence" THEN SubSeq(body, 1, m - 1) ELSE body
        ELSE text

\* str.find('{', from): the first position >= from holding the character,
\* 0 if none
RECURSIVE FindBrace(_, _)
FindBrace(text, from) ==
    IF from > Len(text) THEN 0
    ELSE IF HasOpenBrace(text[from]) THEN from
    ELSE FindBrace(text, from + 1)

\* lines 550-558: from brace_count at position pos, the position after the
\* character that brings the count to 0, or 0 when the text ends first
RECURSIVE MatchEnd(_, _, _)
MatchEnd(text, pos, brace_count) ==
    IF brace_count = 0 THEN pos
    ELSE IF pos > Len(text) THEN 0
    ELSE MatchEnd(text, pos + 1,
                  IF HasOpenBrace(text[pos]) THEN brace_count + 1
                  ELSE IF HasCloseBrace(text[pos]) THEN brace_count - 1
                  ELSE brace_count)

\* json.loads of one object: its braces balance (string literals are whole
\* tokens and do not count), it starts and ends on a brace character and holds
\* only members, strings and nested objects
RECURSIVE Depths(_, _)
Depths(toks, d) ==
    IF toks = <<>> THEN <<>>
    ELSE LET d2 == IF Head(toks) = "{" THEN d + 1
                   ELSE IF Head(toks) = "}" THEN d - 1 ELSE d
         IN  <<d2>> \o Depths(Tail(toks), d2)

WellFormedObject(toks) ==
    LET n == Len(toks)
        ds == Depths(toks, 0)
    IN  /\ n >= 2
        /\ toks[1] = "{"
        /\ toks[n] = "}"
        /\ \A i \in 1..n : toks[i] \in {"{", "}", "s", "s{", "s}"} \/ IsAtom(toks[i])
        /\ \A i \in 1..(n - 1) : ds[i] >= 1
        /\ ds[n] = 0

\* the automation options the generator's texts speak of, by the name of
\* their members token; task ids 1.. are the process's tasks, 9 is no task;
\* robots "R1", "R2" may be in the catalog, "Rx" never is
Assign(t, r) == [keys |-> {"task_id", "robot_name"}, task_id |-> t, robot_name |-> r]
NoRobotName(t) == [keys |-> {"task_id"}, task_id |-> t, robot_name |-> PyNone]
NoTaskId(r) == [keys |-> {"robot_name"}, task_id |-> 0, robot_name |-> r]
Option(id, assignments) ==
    [keys |-> {"option_id", "assignments"}, option_id |-> id, assignments |-> assignments]

OptionOfAtom(atom) ==
    CASE atom = "A" -> Option("A", <<Assign(1, "R1"), Assign(2, "R1")>>)
      [] atom = "B" -> Option("B", <<Assign(1, "R2")>>)
      [] atom = "A2" -> Option("A", <<Assign(2, "R2")>>)
      [] atom = "C" -> Option("C", <<Assign(1, "R1"), Assign(2, "R2")>>)
      [] atom = "E" -> Option("", <<Assign(1, "R1")>>)
      [] atom = "L" -> Option(PyNone, <<Assign(1, "R1")>>)
      [] atom = "U" -> [keys |-> {"assignments"}, option_id |-> PyNone,
                        assignments |-> <<Assign(1, "R1")>>]
      [] atom = "X" -> Option("X", <<Assign(1, "Rx")>>)
      [] atom = "Z" -> [keys |-> {"option_id"}, option_id |-> "Z", assignments |-> <<>>]
      [] atom = "M" -> Option("M", <<NoRobotName(1)>>)
      [] atom = "T" -> Option("T", <<NoTaskId("R1")>>)
      [] atom = "P" -> Option("P", <<Assign(9, "R1")>>)
      [] atom = "D" -> Option("D", <<Assign(1, "Digit-2")>>)
      [] atom = "D2" -> Option("D", <<Assign(2, "GGC_TestModel")>>)
      [] atom = "J" -> Option("J", <<Assign(1, "Atlas_JVRC"), Assign(2, "Atlas_JVRC")>>)
      [] atom = "G" -> Option("G", <<Assign(1, "GGC_TestModel"), Assign(2, "JVRC_Digit")>>)
      [] atom = "Q" -> Option("Q", <<Assign(1, "R1"), Assign(2, "Rx")>>)
      [] atom = "N" -> Option("N", <<>>)
      [] atom = "W" -> Option("W", <<Assign(1, "R1"), Assign(1, "Digit-2")>>)
      [] atom = "Q9" -> Option("Q", <<Assign(9, "R1")>>)
      [] OTHER -> EmptyOption

Atoms == {"A", "B", "A2", "C", "E", "L", "U", "X", "Z", "M", "T", "P"}

\* the matching close of a JSON object: string literals do not count
RECURSIVE JsonMatchEnd(_, _, _)
JsonMatchEnd(text, pos, depth) ==
    IF depth = 0 THEN pos
    ELSE IF pos > Len(text) THEN 0
    ELSE JsonMatchEnd(text, pos + 1,
                      IF text[pos] = "{" THEN depth + 1
                      ELSE IF text[pos] = "}" THEN depth - 1
                      ELSE depth)

\* the dict json.loads makes of a well-formed object: the option of its
\* members token, an empty dict when it has none
OptionOfObject(toks) ==
    LET ds == Depths(toks, 0)
        own == {i \in 1..Len(toks) : IsAtom(toks[i]) /\ ds[i] = 1}
    IN  IF own = {} THEN EmptyOption
        ELSE OptionOfAtom(toks[CHOOSE i \in own : \A j \in own : i <= j])

\* json.loads of the members of the top-level object: ok when they are JSON,
\* with the elements of the automation_options array when there is one
RECURSIVE ScanMembers(_, _, _)
ScanMembers(text, pos, in_array) ==
    IF pos > Len(text)
    THEN [ok |-> ~in_array, has_key |-> FALSE, is_list |-> FALSE, options |-> <<>>]
    ELSE LET tok == text[pos]
             end == JsonMatchEnd(text, pos + 1, 1)
             obj == SubSeq(text, pos, end - 1)
             after_obj == ScanMembers(text, end, in_array)
             next == ScanMembers(text, pos + 1, in_array)
             in_arr == ScanMembers(text, pos + 1, TRUE)
             out_arr == ScanMembers(text, pos + 1, FALSE)
             bad == [ok |-> FALSE, has_key |-> FALSE, is_list |-> FALSE, options |-> <<>>]
         IN  CASE tok = "{" ->
                    IF end = 0 \/ ~WellFormedObject(obj) THEN bad
                    ELSE IF in_array
                    THEN [after_obj EXCEPT !.options = <<OptionOfObject(obj)>> \o @]
                    ELSE after_obj
               [] tok \in {"K", "k"} ->
                    IF in_array THEN bad
                    ELSE [in_arr EXCEPT !.has_key = TRUE, !.is_list = TRUE]
               [] tok = "]" -> IF in_array THEN out_arr ELSE bad
               [] tok = "N" ->
                    IF in_array THEN bad ELSE [next EXCEPT !.has_key = TRUE]
               [] tok \in {"s", "s{", "s}"} -> IF in_array THEN bad ELSE next
               [] OTHER -> bad

\* json.loads(json_text), line 531
ParseDocument(text) ==
    LET n == Len(text)
        members == ScanMembers(SubSeq(text, 2, n - 1), 1, FALSE)
    IN  IF text = <<"[", "]">>
        THEN [ok |-> TRUE, kind |-> "list", has_key |-> FALSE, is_list |-> FALSE,
              options |-> <<>>]
        ELSE IF n >= 2 /\ text[1] = "{" /\ text[n] = "}" /\ members.ok
        THEN [ok |-> TRUE, kind |-> "dict", has_key |-> members.has_key,
              is_list |-> members.is_list, options |-> members.options]
        ELSE [ok |-> FALSE, kind |-> "none", has_key |-> FALSE, is_list |-> FALSE,
              options |-> <<>>]

\* lines 560-575: the options salvaged from option_start on
RECURSIVE SalvageFrom(_, _)
SalvageFrom(text, option_start) ==
    IF option_start = 0 THEN <<>>
    ELSE LET potential_end == MatchEnd(text, option_start + 1, 1)
             option_json == SubSeq(text, option_start, potential_end - 1)
             rest == SalvageFrom(text, FindBrace(text, potential_end))
         IN  IF potential_end = 0 THEN <<>>
             ELSE IF WellFormedObject(option_json)
             THEN <<OptionOfObject(option_json)>> \o rest
             ELSE rest

\* line 538 and 543: the position after the literal '"automation_options": ['
RECURSIVE FindKey(_, _)
FindKey(text, from) ==
    IF from > Len(text) THEN 0
    ELSE IF text[from] = "K" THEN from
    ELSE FindKey(text, from + 1)

\* lines 538-587
Salvage(json_text) ==
    LET key == FindKey(json_text, 1)
    IN  IF key = 0 THEN <<>>
        ELSE SalvageFrom(json_text, FindBrace(json_text, key + 1))

\* lines 514-601: the automation options of a generator text
ParseOptions(options_text) ==
    LET json_text == StripFences(options_text)
        doc == ParseDocument(json_text)
    IN  IF options_text = NoText \/ options_text = <<>> THEN <<>>
        ELSE IF doc.ok
        THEN IF doc.kind = "dict" /\ doc.has_key /\ doc.is_list THEN doc.options ELSE <<>>
        ELSE Salvage(json_text)

\* ------------------------------------------------------------------------
\* perform_full_analysis, Step 3 (OptionCostComparator), lines 604-649
\* ------------------------------------------------------------------------
\* line 607: robot_name -> record, a later record of the same name wins
RECURSIVE RobotDataMap(_)
RobotDataMap(available_robots) ==
    IF available_robots = <<>> THEN EmptyMap
    ELSE LET n == Len(available_robots)
             last == available_robots[n]
             rest == RobotDataMap(SubSeq(available_robots, 1, n - 1))
         IN  [x \in DOMAIN rest \cup {last.robot_name} |->
                 IF x = last.robot_name THEN last ELSE rest[x]]

\* the order in which a set of robot names is iterated: it follows the hashes
\* of the names, which the interpreter seeds per process
NameRank(robot_name) ==
    CASE robot_name = "R1" -> 1
      [] robot_name = "R2" -> 2
      [] robot_name = "Rx" -> 3
      [] robot_name = "Digit-2" -> 4
      [] robot_name = "Atlas_JVRC" -> 5
      [] robot_name = "JVRC_Digit" -> 6
      [] robot_name = "GGC_TestModel" -> 7
      [] OTHER -> 8

RECURSIVE SetInOrder(_, _)
SetInOrder(names, seed) ==
    IF names = {} THEN <<>>
    ELSE LET first == CHOOSE x \in names : \A y \in names :
                         IF seed = 1 THEN NameRank(x) <= NameRank(y)
                                     ELSE NameRank(x) >= NameRank(y)
         IN  <<first>> \o SetInOrder(names \ {first}, seed)

\* line 629 with <= in place of <
IsCheaper_NonStrictVariant(effective_cost, oh_float) ==
    IF ~IsNumber(effective_cost) THEN "N/A"
    ELSE IF RLe(effective_cost.v, oh_float) THEN "true" ELSE "false"

\* line 629
IsCheaper(effective_cost, oh_float) ==
    IF ~IsNumber(effective_cost) THEN "N/A"
    ELSE IF RLt(effective_cost.v, oh_float) THEN "true" ELSE "false"

\* lines 617-639: the entry of one robot of an option
CostComparisonEntry(robot_name, robot_data_map, t_float, h_float, g_float, oh_float) ==
    LET effective_cost ==
            IF robot_name \in DOMAIN robot_data_map
            THEN calculate_effective_robot_cost(robot_data_map[robot_name],
                                                Num(t_float), Num(h_float), Num(g_float))
            ELSE NA
    IN  [robot_name |-> robot_name,
         robot_effective_cost_per_human_min |-> effective_cost,
         human_cost_per_min |-> oh_float,
         is_cheaper |-> IsCheaper(effective_cost, oh_float)]

\* line 613: assign['robot_name'] of an assignment without the key
RobotNameKeyError(assignments) ==
    \E i \in 1..Len(assignments) : "robot_name" \notin assignments[i].keys

\* lines 610-646: the cost comparison of one option
OptionCostComparison(option, robot_data_map, t_float, h_float, g_float, oh_float, seed) ==
    LET assignments == OptAssignments(option)
        unique_robots_in_option ==
            {assignments[i].robot_name : i \in 1..Len(assignments)}
        order == SetInOrder(unique_robots_in_option, seed)
    IN  [option_id |-> OptIdOrUnknown(option),
         robot_cost_comparison |->
            [i \in 1..Len(order) |->
                CostComparisonEntry(order[i], robot_data_map,
                                    t_float, h_float, g_float, oh_float)]]

\* the exception that escapes Step 3 for one option, "ok" if none
OptionCostException(option, comparison) ==
    IF RobotNameKeyError(OptAssignments(option)) THEN "KeyError"
    ELSE IF \E i \in 1..Len(comparison.robot_cost_comparison) :
               comparison.robot_cost_comparison[i].robot_effective_cost_per_human_min = Raised
    THEN "OverflowError"
    ELSE "ok"

\* lines 606-649 over all options, in order
CostBenefitResults(automation_options, available_robots, t_float, h_float, g_float, oh_float, seed) ==
    [i \in 1..Len(automation_options) |->
        OptionCostComparison(automation_options[i], RobotDataMap(available_robots),
                             t_float, h_float, g_float, oh_float, seed)]

CostBenefitException(automation_options, cost_benefit_results) ==
    LET excs == [i \in 1..Len(automation_options) |->
                    [exc |-> OptionCostException(automation_options[i],
                                                 cost_benefit_results[i])]]
    IN  FirstExc(excs)

\* ------------------------------------------------------------------------
\* Inputs of the model
\* ------------------------------------------------------------------------
MaxTasks == 2

Task(i, actor) == [id |-> i, actor_type |-> actor]

\* the task lists of 1..MaxTasks tasks, ids in process order: a person does
\* every task, or every task but the last
TaskLists ==
    UNION {{[i \in 1..n |-> "human"],
            [i \in 1..n |-> IF i = n THEN "machine" ELSE "human"]} : n \in 1..MaxTasks}

TasksOf(actors) == [i \in 1..Len(actors) |-> Task(i, actors[i])]

Robot(name, price, opex, pct) ==
    [robot_name |-> name, purchase_price |-> price, op_cost_per_min |-> opex,
     end_effector_cost_percent |-> pct]

\* get_available_robots never sets end_effector_cost_percent (urdf_service.py
\* lines 79-84)
Catalogs ==
    {<<Robot("R1", Num(R(1560)), Num(Frac(1, 2)), Absent),
       Robot("R2", Null, Num(R(2)), Absent)>>,
     <<Robot("R1", Num(R(0)), Null, Absent)>>,
     <<>>}

\* what the task extractor returns: None, a list, or JSON that is no list
ExtractorOutputs ==
    {[kind |-> "none", items |-> <<>>], [kind |-> "dict", items |-> <<>>],
     [kind |-> "list", items |-> <<>>]}
    \cup {[kind |-> "list", items |-> TasksOf(a)] : a \in TaskLists}

\* the fields of a request
HumanCostInputs == {Num(R(1)), Num(R(0)), Str}
DepreciationInputs == {Num(R(1)), Num(R(0)), Null}
HoursInputs == {Num(R(1)), Num(R(0))}
EfficiencyInputs == {Num(R(100))}

Requests ==
    [video_uri : {"gs://video", "http://video"},
     human_cost_min : HumanCostInputs,
     depreciation_years : DepreciationInputs,
     hours_per_week : HoursInputs,
     efficiency_gain : EfficiencyInputs]

\* generator texts: a complete document of the options named
RECURSIVE Flatten(_)
Flatten(pieces) == IF pieces = <<>> THEN <<>> ELSE Head(pieces) \o Flatten(Tail(pieces))

PlainObject(atom) == <<"{", atom, "}">>
Document(key, pieces, closing) == <<"{", key>> \o Flatten(pieces) \o closing

AtomLists == UNION {[1..n -> Atoms] : n \in 0..MaxOptions}

\* the options the generator names in a run of the whole pipeline
PipelineAtoms == {"A", "A2", "B", "C", "U", "X", "M", "T"}
PipelineAtomLists == UNION {[1..n -> PipelineAtoms] : n \in 0..MaxOptions}

PipelineTexts ==
    {NoText, <<>>, <<"!">>, <<"[", "]">>, <<"{", "}">>, <<"{", "N", "}">>}
    \cup {Document("K", [i \in 1..Len(as) |-> PlainObject(as[i])], <<"]", "}">>) :
             as \in PipelineAtomLists}

VARIABLES
    entry,                 \* who called: "http" (analyze_robotics) or "service"
    pc,                    \* where the run is
    request,               \* the arguments of the run
    fin,                   \* oh_float, t_float, h_float, g_float
    tasks,                 \* what the task extractor returned
    available_robots,
    options_text,
    automation_options,
    cost_benefit_results,
    recommendation,
    service_result,        \* what perform_full_analysis returned
    response,              \* what the caller of the endpoint received
    calls,                 \* the collaborators called, in order
    effective_cost,        \* what calculate_effective_robot_cost returned
    hash_seeds,            \* the string hash seed of the interpreter process
                           \* that serves each of two invocations
    second                 \* the locals of a second invocation

vars == <<entry, pc, request, fin, tasks, available_robots, options_text,
          automation_options, cost_benefit_results, recommendation,
          service_result, response, calls, effective_cost, hash_seeds, second>>

NoFin == [oh |-> R(0), t |-> R(0), h |-> R(0), g |-> R(0)]
NoTasks == [kind |-> "unset", items |-> <<>>]
NoRecommendation ==
    [exc |-> "unset", early |-> FALSE, recommended_option_id |-> PyNone,
     option_savings |-> <<>>, annual_projections |-> <<>>]
NoResult ==
    [kind |-> "unset", error |-> "", keys |-> {}, process_tasks |-> <<>>,
     available_robots |-> <<>>, automation_options |-> <<>>,
     cost_benefit_analysis |-> <<>>, recommendation |-> NoRecommendation,
     task_savings_analysis |-> <<>>, annual_projections |-> <<>>]
NoResponse == [status |-> 0, body |-> NoResult]

\* no second invocation
NoSecond ==
    [pc |-> "none", tasks |-> NoTasks, automation_options |-> <<>>,
     cost_benefit_results |-> <<>>, recommendation |-> NoRecommendation,
     service_result |-> NoResult]

ErrorResult(message) == [NoResult EXCEPT !.kind = "error", !.error = message, !.keys = {"error"}]
ExceptionResult(exc) == [NoResult EXCEPT !.kind = "exception", !.error = exc]

ResultKeys ==
    {"process_tasks", "available_robots", "automation_options", "cost_benefit_analysis",
     "recommendation", "task_savings_analysis", "annual_projections"}

\* ------------------------------------------------------------------------
\* analyze_robotics (app/main.py): the request boundary
\* ------------------------------------------------------------------------
Respond(status, body) == [status |-> status, body |-> body]

RequiredFields == {"video_uri", "human_cost_min", "depreciation_years",
                   "hours_per_week", "efficiency_gain"}

\* lines 49-52: the required fields that are missing or null
MissingFields(req) ==
    {f \in RequiredFields \ {"video_uri"} : IsNone(req[f])}

\* lines 57-71: "ok", or the exception of the conversions and range checks
BoundaryNumericCheck(req) ==
    LET oh == FloatOf(req.human_cost_min)
        t == FloatOf(req.depreciation_years)
        h == FloatOf(req.hours_per_week)
        g == FloatOf(req.efficiency_gain)
        exc == FirstExc(<<oh, t, h, g>>)
    IN  IF exc # "ok" THEN exc
        ELSE IF RLe(t.v, R(0)) \/ RLe(h.v, R(0)) THEN "ValueError"
        ELSE IF RLe(oh.v, R(0)) THEN "ValueError"
        ELSE "ok"

\* lines 35-82: the request is refused, or perform_full_analysis is called
AnalyzeRobotics ==
    /\ pc = "request"
    /\ entry = "http"
    /\ LET check == BoundaryNumericCheck(request)
       IN  IF MissingFields(request) # {}
           THEN /\ response' = Respond(400, ErrorResult("Missing required fields"))
                /\ pc' = "done"
           ELSE IF request.video_uri # "gs://video"
           THEN /\ response' = Respond(400, ErrorResult("Invalid video_uri"))
                /\ pc' = "done"
           ELSE IF check \in {"ValueError", "TypeError"}
           THEN /\ response' = Respond(400, ErrorResult("Invalid numerical input"))
                /\ pc' = "done"
           ELSE IF check # "ok"
           THEN /\ response' = Respond(500, ErrorResult("An unexpected server error occurred."))
                /\ pc' = "done"
           ELSE /\ response' = response
                /\ pc' = "validate"
    /\ UNCHANGED <<entry, request, fin, tasks, available_robots, options_text,
                   automation_options, cost_benefit_results, recommendation,
                   service_result, calls, effective_cost, hash_seeds, second>>

\* ------------------------------------------------------------------------
\* perform_full_analysis (AnalysisOrchestrator)
\* ------------------------------------------------------------------------
\* line 438
HumanCostRejected(oh_float) == RLe(oh_float, R(0))

\* lines 431-442: "ok", or the exception of the conversions and of the check
ServiceInputCheck(req) ==
    LET t == FloatOf(req.depreciation_years)
        h == FloatOf(req.hours_per_week)
        g == FloatOf(req.efficiency_gain)
        oh == FloatOf(req.human_cost_min)
        exc == FirstExc(<<t, h, g, oh>>)
    IN  IF exc # "ok" THEN exc
        ELSE IF HumanCostRejected(oh.v) THEN "ValueError"
        ELSE "ok"

\* line 434 without the conversion
GFloat_UnconvertedVariant(efficiency_gain) == efficiency_gain

\* line 434: the percentage converted to a fraction
GFloat(efficiency_gain) == RDiv(efficiency_gain, R(PercentDivisor))

ValidateInputs ==
    /\ pc = "validate"
    /\ LET check == ServiceInputCheck(request)
       IN  IF check \in {"ValueError", "TypeError"}
           THEN /\ service_result' = ErrorResult("Invalid financial input provided")
                /\ fin' = fin
                /\ pc' = "return"
           ELSE IF check # "ok"
           THEN /\ service_result' = ExceptionResult(check)
                /\ fin' = fin
                /\ pc' = "return"
           ELSE /\ service_result' = service_result
                /\ fin' = [oh |-> request.human_cost_min.v,
                           t |-> request.depreciation_years.v,
                           h |-> request.hours_per_week.v,
                           g |-> GFloat(request.efficiency_gain.v)]
                /\ pc' = "extract"
    /\ UNCHANGED <<entry, request, tasks, available_robots, options_text,
                   automation_options, cost_benefit_results, recommendation,
                   response, calls, effective_cost, hash_seeds, second>>

\* line 446 testing only for None
ExtractionFailed_OnlyNoneVariant(out) == out.kind = "none"

\* line 446
ExtractionFailed(out) == out.kind # "list" \/ out.items = <<>>

\* lines 445-451
ExtractTasks ==
    /\ pc = "extract"
    /\ \E out \in ExtractorOutputs :
          /\ tasks' = out
          /\ calls' = Append(calls, "task_extractor")
          /\ IF ExtractionFailed(out)
             THEN /\ service_result' = ErrorResult("Failed to analyze video process or received invalid task format.")
                  /\ pc' = "return"
             ELSE /\ service_result' = service_result
                  /\ pc' = "catalog"
    /\ UNCHANGED <<entry, request, fin, available_robots, options_text,
                   automation_options, cost_benefit_results, recommendation, response, effective_cost, hash_seeds, second>>

\* lines 455-459
LoadCatalog ==
    /\ pc = "catalog"
    /\ \E robots \in Catalogs :
          /\ available_robots' = robots
          /\ calls' = Append(calls, "robot_catalog")
          /\ IF robots = <<>>
             THEN /\ service_result' = ErrorResult("No available robot definitions found (required for cost analysis).")
                  /\ pc' = "return"
             ELSE /\ service_result' = service_result
                  /\ pc' = "generate"
    /\ UNCHANGED <<entry, request, fin, tasks, options_text, automation_options,
                   cost_benefit_results, recommendation, response, effective_cost, hash_seeds, second>>

\* lines 513-601
GenerateOptions ==
    /\ pc = "generate"
    /\ \E text \in PipelineTexts :
          /\ options_text' = text
          /\ automation_options' = ParseOptions(text)
    /\ calls' = Append(calls, "option_generator")
    /\ pc' = "compare"
    /\ UNCHANGED <<entry, request, fin, tasks, available_robots,
                   cost_benefit_results, recommendation, service_result, response, effective_cost, hash_seeds, second>>

HashSeeds == 1..2

\* lines 604-649
CostCompare ==
    /\ pc = "compare"
    /\ \E seed \in HashSeeds :
          LET results == CostBenefitResults(automation_options, available_robots,
                                            fin.t, fin.h, fin.g, fin.oh, seed)
              exc == CostBenefitException(automation_options, results)
          IN  IF exc # "ok"
              THEN /\ service_result' = ExceptionResult(exc)
                   /\ cost_benefit_results' = cost_benefit_results
                   /\ pc' = "return"
              ELSE /\ service_result' = service_result
                   /\ cost_benefit_results' = results
                   /\ pc' = "recommend"
    /\ UNCHANGED <<entry, request, fin, tasks, available_robots, options_text,
                   automation_options, recommendation, response, calls, effective_cost, hash_seeds, second>>

\* lines 677-685 with only the human tasks in the payload
FinalResults_HumanTasksOnlyVariant(rec) ==
    [kind |-> "complete", error |-> "", keys |-> ResultKeys,
     process_tasks |-> HumanTasks(tasks.items),
     available_robots |-> available_robots,
     automation_options |-> automation_options,
     cost_benefit_analysis |-> cost_benefit_results,
     recommendation |-> rec,
     task_savings_analysis |-> rec.option_savings,
     annual_projections |-> rec.annual_projections]

\* lines 677-685
FinalResults(rec) ==
    [kind |-> "complete", error |-> "", keys |-> ResultKeys,
     process_tasks |-> tasks.items,
     available_robots |-> available_robots,
     automation_options |-> automation_options,
     cost_benefit_analysis |-> cost_benefit_results,
     recommendation |-> rec,
     task_savings_analysis |-> rec.option_savings,
     annual_projections |-> rec.annual_projections]

\* lines 655-687
Recommend ==
    /\ pc = "recommend"
    /\ entry \in {"http", "service"}
    /\ LET rec == determine_recommendation_new(cost_benefit_results, fin.oh,
                      automation_options, tasks.items, fin.t, fin.h, available_robots)
       IN  IF rec.exc # "ok"
           THEN /\ service_result' = ExceptionResult(rec.exc)
                /\ recommendation' = recommendation
           ELSE /\ service_result' = FinalResults(rec)
                /\ recommendation' = rec
    /\ pc' = "return"
    /\ UNCHANGED <<entry, request, fin, tasks, available_robots, options_text,
                   automation_options, cost_benefit_results, response, calls, effective_cost, hash_seeds, second>>

\* app/main.py lines 85-96 without the except clause: the fault escapes
BoundaryResponse_PropagateVariant(result) ==
    IF result.kind = "error" THEN Respond(500, result) ELSE Respond(200, result)

\* app/main.py lines 85-96: what analyze_robotics answers for the outcome of
\* perform_full_analysis
BoundaryResponse(result) ==
    IF result.kind = "exception"
    THEN Respond(500, ErrorResult("An unexpected server error occurred."))
    ELSE IF result.kind = "error" THEN Respond(500, result)
    ELSE Respond(200, result)

\* perform_full_analysis returns or raises; a direct caller of the service
\* gets service_result, a request gets the boundary's response
Return ==
    /\ pc = "return"
    /\ entry \in {"http", "service"}
    /\ response' = IF entry = "service" THEN response
                   ELSE BoundaryResponse(service_result)
    /\ pc' = "done"
    /\ UNCHANGED <<entry, request, fin, tasks, available_robots, options_text,
                   automation_options, cost_benefit_results, recommendation,
                   service_result, calls, effective_cost, hash_seeds, second>>

ServiceRequests == {r \in Requests : r.video_uri = "gs://video"}

Init ==
    /\ entry \in {"http", "service"}
    /\ request \in (IF entry = "http" THEN Requests ELSE ServiceRequests)
    /\ pc = IF entry = "http" THEN "request" ELSE "validate"
    /\ fin = NoFin
    /\ tasks = NoTasks
    /\ available_robots = <<>>
    /\ options_text = NoText
    /\ automation_options = <<>>
    /\ cost_benefit_results = <<>>
    /\ recommendation = NoRecommendation
    /\ service_result = NoResult
    /\ response = NoResponse
    /\ calls = <<>>
    /\ effective_cost = Absent
    /\ hash_seeds = <<>>
    /\ second = NoSecond

Next ==
    \/ AnalyzeRobotics
    \/ ValidateInputs
    \/ ExtractTasks
    \/ LoadCatalog
    \/ GenerateOptions
    \/ CostCompare
    \/ Recommend
    \/ Return

Spec == Init /\ [][Next]_vars

\* ------------------------------------------------------------------------
\* calculate_effective_robot_cost called on its own
\* ------------------------------------------------------------------------
CostPrices == {Absent, Null, Num(R(0)), Num(R(1560)), Str, Huge}
CostOpex == {Absent, Null, Num(Frac(1, 2)), Num(R(2)), Str, Huge}
CostPercents == {Absent, Null, Num(Frac(1, 4)), Str}
CostYears == {Num(R(1)), Num(R(2)), Num(R(0)), Num(R(-1)), Str, Null}
CostHours == {Num(R(1)), Num(R(2)), Num(R(0)), Num(R(-1)), Str}
CostGains == {Num(R(0)), Num(Frac(1, 5)), Num(R(-1)), Num(R(-2)), Str}

CostInit ==
    /\ entry = "cost_model"
    /\ pc = "cost"
    /\ \E price \in CostPrices, opex \in CostOpex, pct \in CostPercents :
          available_robots = <<Robot("R1", price, opex, pct)>>
    /\ \E T \in CostYears, H \in CostHours, G \in CostGains :
          request = [video_uri |-> "gs://video", human_cost_min |-> Num(R(1)),
                     depreciation_years |-> T, hours_per_week |-> H,
                     efficiency_gain |-> G]
    /\ fin = NoFin
    /\ tasks = NoTasks
    /\ options_text = NoText
    /\ automation_options = <<>>
    /\ cost_benefit_results = <<>>
    /\ recommendation = NoRecommendation
    /\ service_result = NoResult
    /\ response = NoResponse
    /\ calls = <<>>
    /\ effective_cost = Absent
    /\ hash_seeds = <<>>
    /\ second = NoSecond

CalculateCost ==
    /\ pc = "cost"
    /\ entry = "cost_model"
    /\ effective_cost' =
          calculate_effective_robot_cost(available_robots[1], request.depreciation_years,
                                         request.hours_per_week, request.efficiency_gain)
    /\ pc' = "done"
    /\ UNCHANGED <<entry, request, fin, tasks, available_robots, options_text,
                   automation_options, cost_benefit_results, recommendation,
                   service_result, response, calls, hash_seeds, second>>

CostNext == CalculateCost

CostSpec == CostInit /\ [][CostNext]_vars

\* ------------------------------------------------------------------------
\* determine_recommendation_new called on its own, on the cost comparison
\* Step 3 makes of the options
\* ------------------------------------------------------------------------
RecHumanCosts == {R(1), R(0), R(-1), Inf}
RecYears == {R(2)}
RecHours == {R(1)}
RecGains == {R(0)}
RecCatalogs ==
    {<<Robot("R1", Num(R(1560)), Num(Frac(1, 2)), Absent),
       Robot("R2", Null, Num(R(2)), Absent)>>,
     <<Robot("R1", Num(R(0)), Null, Absent)>>}

OptionsOf(atoms) == [i \in 1..Len(atoms) |-> OptionOfAtom(atoms[i])]

RecInit ==
    /\ entry = "selector"
    /\ pc = "recommend"
    /\ request = [video_uri |-> "gs://video", human_cost_min |-> Null,
                  depreciation_years |-> Null, hours_per_week |-> Null,
                  efficiency_gain |-> Null]
    /\ \E oh \in RecHumanCosts, t \in RecYears, h \in RecHours, g \in RecGains :
          fin = [oh |-> oh, t |-> t, h |-> h, g |-> g]
    /\ \E a \in TaskLists : tasks = [kind |-> "list", items |-> TasksOf(a)]
    /\ available_robots \in RecCatalogs
    /\ \E atoms \in AtomLists : automation_options = OptionsOf(atoms)
    /\ \E seed \in HashSeeds :
          cost_benefit_results =
             CostBenefitResults(automation_options, available_robots,
                                fin.t, fin.h, fin.g, fin.oh, seed)
    /\ CostBenefitException(automation_options, cost_benefit_results) = "ok"
    /\ options_text = NoText
    /\ recommendation = NoRecommendation
    /\ service_result = NoResult
    /\ response = NoResponse
    /\ calls = <<>>
    /\ effective_cost = Absent
    /\ hash_seeds = <<>>
    /\ second = NoSecond

DetermineRecommendation ==
    /\ pc = "recommend"
    /\ entry = "selector"
    /\ recommendation' =
          determine_recommendation_new(cost_benefit_results, fin.oh, automation_options,
                                       tasks.items, fin.t, fin.h, available_robots)
    /\ pc' = "done"
    /\ UNCHANGED <<entry, request, fin, tasks, available_robots, options_text,
                   automation_options, cost_benefit_results, service_result,
                   response, calls, effective_cost, hash_seeds, second>>

RecNext == DetermineRecommendation

RecSpec == RecInit /\ [][RecNext]_vars

\* ------------------------------------------------------------------------
\* determine_recommendation_new called on options whose robots have names the
\* default prices of lines 265-274 depend on, with catalogs whose records
\* lack a price or an end effector percentage in every way a record can
\* ------------------------------------------------------------------------
CapexAtoms == {"D", "D2", "J", "G", "Q", "N", "W", "Q9"}
CapexAtomLists == UNION {[1..n -> CapexAtoms] : n \in 0..MaxOptions}

CapexYears == {R(2), Frac(5, 2), Frac(1, 2)}

CapexCatalogs ==
    {<<Robot("R1", Num(R(1560)), Num(Frac(1, 2)), Num(Frac(1, 5))),
       Robot("Digit-2", Absent, Num(Frac(1, 2)), Absent),
       Robot("Atlas_JVRC", Null, Num(Frac(1, 2)), Absent),
       Robot("JVRC_Digit", Str, Num(Frac(1, 2)), Num(Frac(1, 5))),
       Robot("GGC_TestModel", Null, Null, Absent)>>,
     <<Robot("R1", Num(R(1560)), Num(Frac(1, 2)), Absent),
       Robot("Digit-2", Num(R(1000)), Num(Frac(1, 2)), Null),
       Robot("Atlas_JVRC", Num(R(0)), Num(Frac(1, 2)), Absent),
       Robot("Unused", Num(R(777)), Num(Frac(1, 2)), Absent)>>,
     <<>>}

CapexInit ==
    /\ entry = "selector"
    /\ pc = "recommend"
    /\ request = [video_uri |-> "gs://video", human_cost_min |-> Null,
                  depreciation_years |-> Null, hours_per_week |-> Null,
                  efficiency_gain |-> Null]
    /\ \E t \in CapexYears : fin = [oh |-> R(1), t |-> t, h |-> R(1), g |-> R(0)]
    /\ tasks = [kind |-> "list", items |-> TasksOf(<<"human", "human">>)]
    /\ available_robots \in CapexCatalogs
    /\ \E atoms \in CapexAtomLists : automation_options = OptionsOf(atoms)
    /\ \E seed \in HashSeeds :
          cost_benefit_results =
             CostBenefitResults(automation_options, available_robots,
                                fin.t, fin.h, fin.g, fin.oh, seed)
    /\ options_text = NoText
    /\ recommendation = NoRecommendation
    /\ service_result = NoResult
    /\ response = NoResponse
    /\ calls = <<>>
    /\ effective_cost = Absent
    /\ hash_seeds = <<>>
    /\ second = NoSecond

CapexSpec == CapexInit /\ [][RecNext]_vars

\* ------------------------------------------------------------------------
\* determine_recommendation_new called on its own, for processes of one to
\* MaxTasks human tasks and several numbers of operating hours
\* ------------------------------------------------------------------------
CycleAtoms == {"A", "B", "C", "P", "N"}
CycleAtomLists == UNION {[1..n -> CycleAtoms] : n \in 0..MaxOptions}
CycleHumanCosts == {R(1), R(3), Inf}
CycleHours == {R(1), R(2), Frac(1, 2)}

CycleInit ==
    /\ entry = "selector"
    /\ pc = "recommend"
    /\ request = [video_uri |-> "gs://video", human_cost_min |-> Null,
                  depreciation_years |-> Null, hours_per_week |-> Null,
                  efficiency_gain |-> Null]
    /\ \E oh \in CycleHumanCosts, h \in CycleHours :
          fin = [oh |-> oh, t |-> R(2), h |-> h, g |-> R(0)]
    /\ \E a \in TaskLists : tasks = [kind |-> "list", items |-> TasksOf(a)]
    /\ available_robots \in RecCatalogs
    /\ \E atoms \in CycleAtomLists : automation_options = OptionsOf(atoms)
    /\ \E seed \in HashSeeds :
          cost_benefit_results =
             CostBenefitResults(automation_options, available_robots,
                                fin.t, fin.h, fin.g, fin.oh, seed)
    /\ options_text = NoText
    /\ recommendation = NoRecommendation
    /\ service_result = NoResult
    /\ response = NoResponse
    /\ calls = <<>>
    /\ effective_cost = Absent
    /\ hash_seeds = <<>>
    /\ second = NoSecond

CycleSpec == CycleInit /\ [][RecNext]_vars

\* ------------------------------------------------------------------------
\* the parsing of a generator text (lines 516-601) on its own
\* ------------------------------------------------------------------------
\* the ways the generator may write the object of one option
PieceKinds == {"plain", "nested", "str_open", "str_close", "bad", "cut"}

PieceOf(kind, atom) ==
    CASE kind = "plain" -> <<"{", atom, "}">>
      [] kind = "nested" -> <<"{", atom, "{", "}", "}">>
      [] kind = "str_open" -> <<"{", atom, "s{", "}">>
      [] kind = "str_close" -> <<"{", atom, "s}", "}">>
      [] kind = "bad" -> <<"{", atom, "!", "}">>
      [] OTHER -> <<"{", atom>>

ParseAtoms == {"A", "B", "U"}

\* an object cut short can only be the last thing of a text
PieceLists ==
    {ps \in UNION {[1..n -> PieceKinds \X ParseAtoms] : n \in 0..MaxOptions} :
        \A i \in 1..Len(ps) : ps[i][1] = "cut" => i = Len(ps)}

\* what follows the options: the rest of the document, nothing (the text is
\* cut), or a further member holding an object and then nothing
Closings == {<<"]", "}">>, <<>>, <<"]", "N", "{", "}">>}

ArrayKeys == {"K", "k"}

GeneratedTexts ==
    LET bare == {Document(key, [i \in 1..Len(ps) |-> PieceOf(ps[i][1], ps[i][2])], closing) :
                    key \in ArrayKeys, ps \in PieceLists, closing \in Closings}
    IN  bare \cup {<<"fence_json">> \o text \o <<"fence">> : text \in bare}

ParseInit ==
    /\ entry = "parser"
    /\ pc = "parse"
    /\ options_text \in GeneratedTexts
    /\ request = [video_uri |-> "gs://video", human_cost_min |-> Null,
                  depreciation_years |-> Null, hours_per_week |-> Null,
                  efficiency_gain |-> Null]
    /\ fin = NoFin
    /\ tasks = NoTasks
    /\ available_robots = <<>>
    /\ automation_options = <<>>
    /\ cost_benefit_results = <<>>
    /\ recommendation = NoRecommendation
    /\ service_result = NoResult
    /\ response = NoResponse
    /\ calls = <<>>
    /\ effective_cost = Absent
    /\ hash_seeds = <<>>
    /\ second = NoSecond

ParseGenerated ==
    /\ pc = "parse"
    /\ entry = "parser"
    /\ automation_options' = ParseOptions(options_text)
    /\ pc' = "done"
    /\ UNCHANGED <<entry, request, fin, tasks, available_robots, options_text,
                   cost_benefit_results, recommendation, service_result,
                   response, calls, effective_cost, hash_seeds, second>>

ParseNext == ParseGenerated

ParseSpec == ParseInit /\ [][ParseNext]_vars

\* ------------------------------------------------------------------------
\* Two invocations of Steps 3 and 4 of perform_full_analysis (lines 604-687)
\* on the same catalog and financial parameters, their steps interleaved.
\* The first uses the variables of a run, the second the record second; each
\* is served by an interpreter process with its own string hash seed (two
\* threads of one process have the same).
\* ------------------------------------------------------------------------
PairAtoms == {"A", "C"}
PairAtomLists == UNION {[1..n -> PairAtoms] : n \in 0..MaxOptions}
PairTaskLists == {[i \in 1..n |-> "human"] : n \in {1, MaxTasks}}

\* line 605 with a list kept between invocations
ComparisonList_SharedVariant(own, other) == other \o own

\* line 605: cost_benefit_results_new is a list the invocation creates;
\* nothing another invocation appended is in it
ComparisonList(own, other) == own

\* lines 677-685 for the second invocation
SecondResults(rec) ==
    [kind |-> "complete", error |-> "", keys |-> ResultKeys,
     process_tasks |-> second.tasks.items,
     available_robots |-> available_robots,
     automation_options |-> second.automation_options,
     cost_benefit_analysis |-> second.cost_benefit_results,
     recommendation |-> rec,
     task_savings_analysis |-> rec.option_savings,
     annual_projections |-> rec.annual_projections]

PairInit ==
    /\ entry = "pair"
    /\ pc = "compare"
    /\ request = [video_uri |-> "gs://video", human_cost_min |-> Null,
                  depreciation_years |-> Null, hours_per_week |-> Null,
                  efficiency_gain |-> Null]
    /\ fin = [oh |-> R(1), t |-> R(2), h |-> R(1), g |-> R(0)]
    /\ available_robots =
          <<Robot("R1", Num(R(1560)), Num(Frac(1, 2)), Absent),
            Robot("R2", Null, Num(R(2)), Absent)>>
    /\ \E a \in PairTaskLists : tasks = [kind |-> "list", items |-> TasksOf(a)]
    /\ \E atoms \in PairAtomLists : automation_options = OptionsOf(atoms)
    /\ hash_seeds \in HashSeeds \X HashSeeds
    /\ \E a \in PairTaskLists, atoms \in PairAtomLists :
          second = [NoSecond EXCEPT !.pc = "compare",
                                    !.tasks = [kind |-> "list", items |-> TasksOf(a)],
                                    !.automation_options = OptionsOf(atoms)]
    /\ options_text = NoText
    /\ cost_benefit_results = <<>>
    /\ recommendation = NoRecommendation
    /\ service_result = NoResult
    /\ response = NoResponse
    /\ calls = <<>>
    /\ effective_cost = Absent

\* lines 604-649, first invocation
PairCompareFirst ==
    /\ entry = "pair"
    /\ pc = "compare"
    /\ cost_benefit_results' =
          ComparisonList(CostBenefitResults(automation_options, available_robots,
                                            fin.t, fin.h, fin.g, fin.oh, hash_seeds[1]),
                         second.cost_benefit_results)
    /\ pc' = "recommend"
    /\ UNCHANGED <<entry, request, fin, tasks, available_robots, options_text,
                   automation_options, recommendation, service_result, response,
                   calls, effective_cost, hash_seeds, second>>

\* lines 655-687, first invocation
PairRecommendFirst ==
    /\ entry = "pair"
    /\ pc = "recommend"
    /\ LET rec == determine_recommendation_new(cost_benefit_results, fin.oh,
                      automation_options, tasks.items, fin.t, fin.h, available_robots)
       IN  /\ recommendation' = rec
           /\ service_result' = FinalResults(rec)
    /\ pc' = "done"
    /\ UNCHANGED <<entry, request, fin, tasks, available_robots, options_text,
                   automation_options, cost_benefit_results, response, calls,
                   effective_cost, hash_seeds, second>>

\* lines 604-649, second invocation
PairCompareSecond ==
    /\ entry = "pair"
    /\ second.pc = "compare"
    /\ second' =
          [second EXCEPT
              !.cost_benefit_results =
                  ComparisonList(CostBenefitResults(second.automation_options,
                                                    available_robots, fin.t, fin.h,
                                                    fin.g, fin.oh, hash_seeds[2]),
                                 cost_benefit_results),
              !.pc = "recommend"]
    /\ UNCHANGED <<entry, pc, request, fin, tasks, available_robots, options_text,
                   automation_options, cost_benefit_results, recommendation,
                   service_result, response, calls, effective_cost, hash_seeds>>

\* lines 655-687, second invocation
PairRecommendSecond ==
    /\ entry = "pair"
    /\ second.pc = "recommend"
    /\ LET rec == determine_recommendation_new(second.cost_benefit_results, fin.oh,
                      second.automation_options, second.tasks.items, fin.t, fin.h,
                      available_robots)
       IN  second' = [second EXCEPT !.recommendation = rec,
                                    !.service_result = SecondResults(rec),
                                    !.pc = "done"]
    /\ UNCHANGED <<entry, pc, request, fin, tasks, available_robots, options_text,
                   automation_options, cost_benefit_results, recommendation,
                   service_result, response, calls, effective_cost, hash_seeds>>

PairNext ==
    \/ PairCompareFirst
    \/ PairRecommendFirst
    \/ PairCompareSecond
    \/ PairRecommendSecond

PairSpec == PairInit /\ [][PairNext]_vars

\* ------------------------------------------------------------------------
\* determine_recommendation_new called on its own or by a run of the pipeline
\* ------------------------------------------------------------------------
SelectorInit == Init \/ RecInit

SelectorNext == Next \/ RecNext

SelectorSpec == SelectorInit /\ [][SelectorNext]_vars

\* ------------------------------------------------------------------------
\* Properties
\* ------------------------------------------------------------------------
SelectorReturned == entry = "selector" /\ pc = "done" /\ recommendation.exc = "ok"

SavingsIndices(rec) == 1..Len(rec.option_savings)

NamesAnOption(id) == id \notin {PyNone, No_Automation}

C2_RecommendsMaximum ==
    ( /\ SelectorReturned
      /\ ~recommendation.early
      /\ \E i \in SavingsIndices(recommendation) :
            recommendation.option_savings[i].annual_savings[1] > 0 )
    => /\ recommendation.recommended_option_id # No_Automation
       /\ \E i \in SavingsIndices(recommendation) :
             /\ recommendation.option_savings[i].option_id =
                   recommendation.recommended_option_id
             /\ \A j \in SavingsIndices(recommendation) :
                   RLe(recommendation.option_savings[j].annual_savings,
                       recommendation.option_savings[i].annual_savings)

\* the selector returned, called on its own or by a run of the pipeline
SelectorDone ==
    \/ entry = "selector" /\ pc = "done"
    \/ entry \in {"http", "service"} /\ recommendation.exc # "unset"

\* C3: when the list of per-option cost comparisons is empty or the human
\* cost per minute is <= 0, the selector returns recommended_option_id = null
\* with its justification and never "No_Automation"; a run whose option
\* generator yields zero options ends complete with recommended_option_id null.
C3_NullWhenNothingToEvaluate ==
    /\ ( /\ SelectorDone
         /\ cost_benefit_results = <<>> \/ fin.oh[1] <= 0 )
       => /\ recommendation.exc = "ok"
          /\ recommendation.early
          /\ recommendation.recommended_option_id = PyNone
          /\ recommendation.option_savings = <<>>
    /\ ( /\ entry \in {"http", "service"}
         /\ pc = "done"
         /\ "option_generator" \in Range(calls)
         /\ automation_options = <<>> )
       => /\ service_result.kind = "complete"
          /\ service_result.recommendation.recommended_option_id = PyNone

\* the selector is called with options to evaluate and a human cost <= 0
C3_Witness ==
    /\ entry = "selector"
    /\ pc = "done"
    /\ Len(cost_benefit_results) = 2
    /\ fin.oh[1] <= 0
    /\ recommendation.recommended_option_id = PyNone

\* C4: a complete result holds exactly one option_savings entry and one
\* annual_projections entry for every option of cost_benefit_analysis, in the
\* same order and under the same option_id, including options whose option_id
\* is missing or duplicated.
C4_OneEntryPerOption ==
    ( /\ entry \in {"http", "service"}
      /\ pc = "done"
      /\ service_result.kind = "complete"
      /\ service_result.automation_options # <<>>
      /\ fin.oh[1] > 0 )
    => LET cba == service_result.cost_benefit_analysis
           sav == service_result.recommendation.option_savings
           prj == service_result.annual_projections
       IN  /\ Len(cba) = Len(service_result.automation_options)
           /\ Len(sav) = Len(cba)
           /\ Len(prj) = Len(cba)
           /\ \A i \in 1..Len(cba) :
                 /\ sav[i].option_id = cba[i].option_id
                 /\ prj[i].option_id = cba[i].option_id

\* C5: every request that reaches perform_full_analysis is answered with a
\* complete result object (all seven fields, no error field) or with an object
\* whose only field is error; an exception raised during orchestration is
\* answered with the generic error "An unexpected server error occurred." and
\* never propagates.
C5_CompleteOrErrorOnly ==
    ( /\ entry = "http"
      /\ pc = "done"
      /\ service_result.kind # "unset" )
    => /\ \/ /\ response.body.kind = "complete"
             /\ response.body.keys = ResultKeys
             /\ "error" \notin response.body.keys
             /\ response.body = service_result
          \/ /\ response.body.kind = "error"
             /\ response.body.keys = {"error"}
       /\ service_result.kind = "exception" =>
             /\ response.status = 500
             /\ response.body.error = "An unexpected server error occurred."

\* the orchestration raised and the request was answered
C5_Witness ==
    /\ entry = "http"
    /\ pc = "done"
    /\ service_result.kind = "exception"
    /\ response.body.keys = {"error"}

FinancialFields == {"human_cost_min", "depreciation_years", "hours_per_week",
                    "efficiency_gain"}

InvalidFinancialInput(req) ==
    \/ \E f \in FinancialFields : req[f].k # "num"
    \/ req.depreciation_years.v[1] <= 0
    \/ req.hours_per_week.v[1] <= 0
    \/ req.human_cost_min.v[1] <= 0

\* C6: perform_full_analysis invoked with depreciation_years <= 0, or
\* hours_per_week <= 0, or human_cost_min <= 0, or a non-numeric financial
\* input returns an error result and calls none of the task extractor, the
\* robot catalog loader and the option generator.
C6_InvalidInputsAbortBeforeCalls ==
    ( /\ entry = "service"
      /\ pc = "done"
      /\ InvalidFinancialInput(request) )
    => /\ service_result.kind = "error"
       /\ calls = <<>>

\* C7: if the task extractor returns null, an empty list or a non-list value,
\* or the robot catalog loader returns an empty list, the run returns a single
\* error object, no later collaborator is called, and no cost comparison or
\* recommendation is computed.
C7_FatalCollaboratorFailures ==
    /\ ( /\ "task_extractor" \in Range(calls)
         /\ \/ tasks.kind = "none"
            \/ tasks.kind = "dict"
            \/ tasks.kind = "list" /\ tasks.items = <<>> )
       => /\ calls = <<"task_extractor">>
          /\ pc \in {"return", "done"}
          /\ service_result.kind = "error"
          /\ service_result.keys = {"error"}
          /\ cost_benefit_results = <<>>
          /\ recommendation = NoRecommendation
    /\ ( /\ "robot_catalog" \in Range(calls)
         /\ available_robots = <<>> )
       => /\ calls = <<"task_extractor", "robot_catalog">>
          /\ pc \in {"return", "done"}
          /\ service_result.kind = "error"
          /\ service_result.keys = {"error"}
          /\ cost_benefit_results = <<>>
          /\ recommendation = NoRecommendation

\* the extractor returned an empty list and the run has ended
C7_Witness ==
    /\ pc = "done"
    /\ tasks.kind = "list"
    /\ tasks.items = <<>>
    /\ calls = <<"task_extractor">>
    /\ service_result.kind = "error"

\* C8: with valid financial inputs, a non-empty task list and a non-empty
\* robot catalog, perform_full_analysis returns a complete non-error result
\* for every output of the option generator, including options or assignments
\* without option_id, assignments, task_id or robot_name.
C8_GeneratorOutputNeverFatal ==
    ( /\ entry \in {"http", "service"}
      /\ pc = "done"
      /\ ~InvalidFinancialInput(request)
      /\ "option_generator" \in Range(calls) )
    => service_result.kind = "complete"

\* the position after the automation_options key of a text, however the key
\* is spaced; 0 if the text has none
RECURSIVE ArrayStart(_, _)
ArrayStart(text, from) ==
    IF from > Len(text) THEN 0
    ELSE IF text[from] \in ArrayKeys THEN from + 1
    ELSE ArrayStart(text, from + 1)

\* the objects of the array that starts at pos which are well-formed JSON on
\* their own, in order: an object ends at its matching brace, braces inside
\* string literals not counting; the array ends at its bracket or with the text
RECURSIVE WellFormedOptions(_, _)
WellFormedOptions(text, pos) ==
    IF pos = 0 \/ pos > Len(text) THEN <<>>
    ELSE IF text[pos] = "]" THEN <<>>
    ELSE IF text[pos] # "{" THEN WellFormedOptions(text, pos + 1)
    ELSE LET end == JsonMatchEnd(text, pos + 1, 1)
             obj == SubSeq(text, pos, end - 1)
         IN  IF end = 0 THEN <<>>
             ELSE (IF WellFormedObject(obj) THEN <<OptionOfObject(obj)>> ELSE <<>>)
                  \o WellFormedOptions(text, end)

ParsedAfterFailure ==
    /\ entry = "parser"
    /\ pc = "done"
    /\ ~ParseDocument(StripFences(options_text)).ok

\* C9: when parsing the whole text fails, the salvage step yields exactly the
\* option objects of the automation_options array that are well-formed JSON
\* objects on their own, in their order; a well-formed option is lost neither
\* to a malformed or truncated neighbour, nor to braces inside its string
\* values, nor to the spacing around the array key.
C9_SalvageKeepsWellFormedOptions ==
    ParsedAfterFailure =>
        automation_options =
           WellFormedOptions(StripFences(options_text),
                             ArrayStart(StripFences(options_text), 1))

CostReturned == entry = "cost_model" /\ pc = "done"

NumericParameters ==
    /\ request.depreciation_years.k = "num"
    /\ request.hours_per_week.k = "num"
    /\ request.efficiency_gain.k = "num"

NotComputableCase ==
    \/ request.depreciation_years.v[1] <= 0
    \/ request.hours_per_week.v[1] <= 0
    \/ RAdd(R(1), request.efficiency_gain.v)[1] <= 0

\* C10: calculate_effective_robot_cost returns "N/A" whenever the robot's
\* op_cost_per_min is absent, whatever the other fields and parameters, or
\* depreciation_years <= 0, or hours_per_week <= 0, or 1 + efficiency_gain
\* <= 0; and it returns a number in every other case where op_cost_per_min is
\* numeric (the parameters being numbers).
C10_NotComputableOrNumber ==
    CostReturned =>
        /\ IsNone(available_robots[1].op_cost_per_min) => effective_cost = NA
        /\ (NumericParameters /\ NotComputableCase) => effective_cost = NA
        /\ ( /\ NumericParameters
             /\ ~NotComputableCase
             /\ IsNumber(available_robots[1].op_cost_per_min) )
           => effective_cost.k = "num"

\* a field of the robot record taken as a number: 0 when absent, null or not
\* a number
FieldOrZero(x) == IF x.k = "num" THEN x.v ELSE R(0)

\* the robot's op_cost_per_min is a number, its purchase price is not an
\* unconvertible one, and T > 0, H > 0, 1 + G > 0
ComputableCase ==
    /\ CostReturned
    /\ NumericParameters
    /\ ~NotComputableCase
    /\ available_robots[1].op_cost_per_min.k = "num"
    /\ available_robots[1].purchase_price.k # "huge"

C12_CostNeverRaises ==
    CostReturned => effective_cost.k \in {"num", "N/A"}

\* the ids of the tasks a person does
HumanTaskIds == {tasks.items[i].id : i \in {j \in 1..Len(tasks.items) :
                                             tasks.items[j].actor_type = "human"}}

\* the only option assigns every human task to one robot of the catalog
SingleRobotOption ==
    /\ Len(automation_options) = 1
    /\ LET assignments == OptAssignments(automation_options[1])
       IN  /\ assignments # <<>>
           /\ \A i \in 1..Len(assignments) :
                 /\ assignments[i].keys = {"task_id", "robot_name"}
                 /\ assignments[i].robot_name = assignments[1].robot_name
           /\ \E r \in 1..Len(available_robots) :
                 available_robots[r].robot_name = assignments[1].robot_name
           /\ HumanTaskIds \subseteq
                 {assignments[i].task_id : i \in 1..Len(assignments)}

\* the scenario of C13 after the selector returned: N >= 1 human tasks,
\* T > 0, H > 0, 1 + G > 0, and the robot's effective cost is below OH
CheaperRobotScenario ==
    /\ SelectorDone
    /\ recommendation.exc = "ok"
    /\ HumanTaskIds # {}
    /\ fin.t[1] > 0 /\ fin.h[1] > 0 /\ RAdd(R(1), fin.g)[1] > 0
    /\ SingleRobotOption
    /\ Len(cost_benefit_results) = 1
    /\ Len(cost_benefit_results[1].robot_cost_comparison) = 1
    /\ LET e == cost_benefit_results[1].robot_cost_comparison[1]
                   .robot_effective_cost_per_human_min
       IN  e.k = "num" /\ RLt(e.v, fin.oh)

\* C13: with N >= 1 human tasks, valid T, H, G and a single option assigning
\* every human task to one catalog robot of effective cost e < OH, the
\* comparison entry has is_cheaper = true, savings_per_cycle = N*(OH - e),
\* annual_savings = savings_per_cycle * (60/N)*H*52 > 0, and the recommended
\* id is that option's id.
C13_CheaperRobotRecommended ==
    CheaperRobotScenario =>
        LET entry1 == cost_benefit_results[1].robot_cost_comparison[1]
            e == entry1.robot_effective_cost_per_human_min.v
            N == R(Cardinality(HumanTaskIds))
            per_cycle == RMul(N, RSub(fin.oh, e))
            cycles == RMul(RMul(RDiv(R(60), N), fin.h), R(52))
        IN  /\ entry1.is_cheaper = "true"
            /\ Len(recommendation.option_savings) = 1
            /\ recommendation.option_savings[1].savings_per_cycle = per_cycle
            /\ recommendation.option_savings[1].annual_savings = RMul(per_cycle, cycles)
            /\ recommendation.option_savings[1].annual_savings[1] > 0
            /\ recommendation.recommended_option_id = OptGetId(automation_options[1])

BothReturned == entry = "pair" /\ pc = "done" /\ second.pc = "done"

\* C14: running the cost comparison, savings projection and recommendation
\* twice on identical tasks, robots, options and financial parameters yields
\* identical results, the order of the entries of every robot_cost_comparison
\* and every robot_capex included.
C14_SameInputsSameResults ==
    ( /\ BothReturned
      /\ second.tasks = tasks
      /\ second.automation_options = automation_options )
    => second.service_result = service_result

\* What the first and the second invocation compute when run alone on their
\* own inputs
AloneComparisonFirst ==
    CostBenefitResults(automation_options, available_robots,
                       fin.t, fin.h, fin.g, fin.oh, hash_seeds[1])
AloneComparisonSecond ==
    CostBenefitResults(second.automation_options, available_robots,
                       fin.t, fin.h, fin.g, fin.oh, hash_seeds[2])
AloneRecommendationFirst ==
    determine_recommendation_new(AloneComparisonFirst, fin.oh, automation_options,
                                 tasks.items, fin.t, fin.h, available_robots)
AloneRecommendationSecond ==
    determine_recommendation_new(AloneComparisonSecond, fin.oh,
                                 second.automation_options, second.tasks.items,
                                 fin.t, fin.h, available_robots)

\* C15: under every interleaving of two invocations, what each invocation has
\* built (its cost comparisons, and once it has returned its recommendation,
\* option_savings and projections) is what it builds when run alone on its own
\* inputs; nothing written by the other invocation is in it.
C15_InvocationsIsolated ==
    entry = "pair" =>
      /\ pc \in {"recommend", "done"} => cost_benefit_results = AloneComparisonFirst
      /\ second.pc \in {"recommend", "done"} =>
            second.cost_benefit_results = AloneComparisonSecond
      /\ pc = "done" =>
            /\ recommendation = AloneRecommendationFirst
            /\ service_result.cost_benefit_analysis = AloneComparisonFirst
            /\ service_result.recommendation = AloneRecommendationFirst
            /\ service_result.task_savings_analysis = AloneRecommendationFirst.option_savings
            /\ service_result.annual_projections = AloneRecommendationFirst.annual_projections
            /\ service_result.process_tasks = tasks.items
      /\ second.pc = "done" =>
            /\ second.recommendation = AloneRecommendationSecond
            /\ second.service_result.cost_benefit_analysis = AloneComparisonSecond
            /\ second.service_result.recommendation = AloneRecommendationSecond
            /\ second.service_result.task_savings_analysis = AloneRecommendationSecond.option_savings
            /\ second.service_result.annual_projections = AloneRecommendationSecond.annual_projections
            /\ second.service_result.process_tasks = second.tasks.items

\* Both invocations have built their comparisons and neither has returned:
\* their steps are interleaved, and they work on different options
C15_Witness ==
    /\ entry = "pair"
    /\ pc = "recommend"
    /\ second.pc = "recommend"
    /\ cost_benefit_results # <<>>
    /\ second.cost_benefit_results # <<>>
    /\ second.cost_benefit_results # cost_benefit_results
    /\ second.tasks # tasks

\* The percentage p of the request as a fraction
GainOfPercent(p) == RDiv(p, R(100))
GainOfPercentTwice(p) == RDiv(p, R(10000))

\* perform_full_analysis has accepted its inputs
InputsAccepted == entry \in {"http", "service"} /\ fin # NoFin

\* The comparisons of the run, were every call of
\* calculate_effective_robot_cost given the gain G
ComparisonsWithGain(G) ==
    {CostBenefitResults(automation_options, available_robots,
                        fin.t, fin.h, G, fin.oh, seed) : seed \in HashSeeds}

C17_ProjectionsFinite ==
    SelectorReturned =>
        \A i \in 1..Len(recommendation.annual_projections) :
            LET p == recommendation.annual_projections[i]
            IN  /\ \A y \in 1..Len(p.cumulative_costs_by_year) :
                      IsFinite(p.cumulative_costs_by_year[y])
                /\ \A y \in 1..Len(p.baseline_cumulative_costs_by_year) :
                      IsFinite(p.baseline_cumulative_costs_by_year[y])

\* Step 3 of a run of perform_full_analysis is over
Step3Over ==
    /\ entry \in {"http", "service"}
    /\ "option_generator" \in Range(calls)
    /\ pc # "compare"

\* the robot names the assignments of an option refer to
ReferencedRobots(option) ==
    LET assignments == OptAssignments(option)
    IN  {assignments[i].robot_name :
            i \in {k \in 1..Len(assignments) : "robot_name" \in assignments[k].keys}}

CatalogNames == {available_robots[i].robot_name : i \in 1..Len(available_robots)}

NamesUnknownRobot(option) == ReferencedRobots(option) \ CatalogNames # {}

\* C18: the cost comparison of every automation option has exactly one entry
\* per distinct robot_name its assignments refer to; the entry of a name that
\* is not in the catalog has "N/A" as cost and as is_cheaper, and the option
\* and the run are kept.
C18_OneEntryPerRobot ==
    Step3Over =>
      /\ Len(cost_benefit_results) = Len(automation_options)
      /\ \A i \in 1..Len(automation_options) :
            LET cmp == cost_benefit_results[i].robot_cost_comparison
                names == ReferencedRobots(automation_options[i])
            IN  /\ {cmp[j].robot_name : j \in 1..Len(cmp)} = names
                /\ Len(cmp) = Cardinality(names)
                /\ \A j \in 1..Len(cmp) :
                      cmp[j].robot_name \notin CatalogNames =>
                         /\ cmp[j].robot_effective_cost_per_human_min = NA
                         /\ cmp[j].is_cheaper = "N/A"
      /\ ( /\ pc = "done"
           /\ \E i \in 1..Len(automation_options) :
                 NamesUnknownRobot(automation_options[i]) )
         => /\ service_result.kind = "complete"
            /\ service_result.cost_benefit_analysis = cost_benefit_results

\* every entry of the cost comparisons built by the run
ComparisonEntries ==
    UNION {{cost_benefit_results[i].robot_cost_comparison[j] :
               j \in 1..Len(cost_benefit_results[i].robot_cost_comparison)} :
           i \in 1..Len(cost_benefit_results)}

\* C19: in every cost comparison entry is_cheaper is the boolean
\* (effective cost < human_cost_per_min), false when the two are equal, exactly
\* when the effective cost is a number, and "N/A" exactly when the effective
\* cost is "N/A".
C19_IsCheaperStrictOrNA ==
    entry \in {"http", "service"} =>
      \A e \in ComparisonEntries :
         LET cost == e.robot_effective_cost_per_human_min
         IN  /\ cost.k \in {"num", "N/A"}
             /\ cost.k = "num" <=> e.is_cheaper \in {"true", "false"}
             /\ cost.k = "N/A" <=> e.is_cheaper = "N/A"
             /\ cost.k = "num" =>
                   /\ e.is_cheaper = "true" <=> RLt(cost.v, e.human_cost_per_min)
                   /\ cost.v = e.human_cost_per_min => e.is_cheaper = "false"

\* A comparison with an entry whose cost equals the human cost, one that is
\* cheaper and, in some option, one without a cost
C19_Witness ==
    /\ entry = "http"
    /\ pc = "recommend"
    /\ \E e \in ComparisonEntries :
          /\ e.robot_effective_cost_per_human_min.k = "num"
          /\ e.robot_effective_cost_per_human_min.v = e.human_cost_per_min
          /\ e.is_cheaper = "false"
    /\ \E e \in ComparisonEntries : e.is_cheaper = "true"
    /\ \E e \in ComparisonEntries : e.is_cheaper = "N/A"

\* the number N of tasks of the process whose actor_type is human
HumanTaskCount ==
    Cardinality({i \in 1..Len(tasks.items) : tasks.items[i].actor_type = "human"})

ClaimedCyclesPerHour == IF HumanTaskCount > 0 THEN Frac(60, HumanTaskCount) ELSE R(1)
ClaimedCyclesPerYear == RMul(RMul(ClaimedCyclesPerHour, fin.h), R(52))

\* C20: cycle_time_mins is the number N of human tasks (machine tasks do not
\* count), cycles_per_hour is 60/N when N > 0 and 1 when N = 0, and
\* cycles_per_year is cycles_per_hour * hours_per_week * 52; the annual
\* figures of every option returned are its per-cycle figures times
\* cycles_per_year.
C20_CycleMetrics ==
    entry = "selector" =>
      /\ Len(HumanTasks(tasks.items)) = HumanTaskCount
      /\ CyclesPerHour(tasks.items) = ClaimedCyclesPerHour
      /\ CyclesPerYear(tasks.items, fin.h) = ClaimedCyclesPerYear
      /\ SelectorReturned =>
            /\ \A i \in 1..Len(recommendation.annual_projections) :
                  LET p == recommendation.annual_projections[i]
                  IN  /\ p.annual_baseline_cost =
                            RMul(p.baseline_cost_per_cycle, ClaimedCyclesPerYear)
                      /\ p.annual_cost_with_automation =
                            RMul(p.robot_cost_per_cycle, ClaimedCyclesPerYear)
            /\ \A i \in SavingsIndices(recommendation) :
                  recommendation.option_savings[i].annual_savings =
                     RMul(recommendation.option_savings[i].savings_per_cycle,
                          ClaimedCyclesPerYear)

\* The selector returned projections for a process with a machine task and at
\* least one human task, with a finite non-zero annual baseline cost
C20_Witness ==
    /\ SelectorReturned
    /\ HumanTaskCount > 0
    /\ HumanTaskCount < Len(tasks.items)
    /\ \E i \in 1..Len(recommendation.annual_projections) :
          /\ IsFinite(recommendation.annual_projections[i].annual_baseline_cost)
          /\ RPos(recommendation.annual_projections[i].annual_baseline_cost)

\* The selector returned one savings entry and one projection per option
EveryOptionEvaluated ==
    /\ SelectorReturned
    /\ ~recommendation.early
    /\ Len(recommendation.annual_projections) = Len(automation_options)
    /\ Len(recommendation.option_savings) = Len(automation_options)

\* the human tasks of the process, in order
ProcessHumanTasks ==
    SelectSeq(tasks.items, LAMBDA t : t.actor_type = "human")

\* the assignments of option k that name the task
AssignmentsOfTask(k, task_id) ==
    LET assignments == automation_options[k].assignments
    IN  {a \in 1..Len(assignments) : assignments[a].task_id = task_id}

\* the numeric effective costs the comparison of option k holds for the robot
NumericCostsOf(k, robot_name) ==
    LET cmp == cost_benefit_results[k].robot_cost_comparison
    IN  {cmp[j].robot_effective_cost_per_human_min.v :
            j \in {x \in 1..Len(cmp) :
                      /\ cmp[x].robot_name = robot_name
                      /\ cmp[x].robot_effective_cost_per_human_min.k = "num"}}

\* what one human task costs per cycle in option k according to C21
ClaimedTaskCost(k, task_id) ==
    LET as == AssignmentsOfTask(k, task_id)
        last == CHOOSE a \in as : \A b \in as : b <= a
        costs == IF as = {} THEN {}
                 ELSE NumericCostsOf(k, automation_options[k].assignments[last].robot_name)
    IN  IF costs = {} THEN fin.oh ELSE CHOOSE c \in costs : TRUE

ClaimedAutomatedCost(k) ==
    SumSeq([t \in 1..Len(ProcessHumanTasks) |->
               ClaimedTaskCost(k, ProcessHumanTasks[t].id)])

ClaimedBaselineCost == RMul(fin.oh, R(Len(ProcessHumanTasks)))

\* C21: for every option the per-cycle baseline cost is human_cost_per_min
\* times the number of human tasks, the per-cycle automated cost is the sum
\* over the human tasks of the assigned robot's effective cost when the task
\* is assigned in the option and that robot has a numeric cost, of
\* human_cost_per_min otherwise, and savings_per_cycle is their difference.
C21_PerCycleCosts ==
    EveryOptionEvaluated =>
       \A k \in 1..Len(automation_options) :
          LET p == recommendation.annual_projections[k]
              sv == recommendation.option_savings[k]
          IN  /\ p.baseline_cost_per_cycle = ClaimedBaselineCost
              /\ p.robot_cost_per_cycle = ClaimedAutomatedCost(k)
              /\ sv.savings_per_cycle =
                    RSub(ClaimedBaselineCost, ClaimedAutomatedCost(k))

\* the catalog's record of a robot name, when it has one
InCatalog(robot_name) == robot_name \in CatalogNames
CatalogRecord(robot_name) ==
    available_robots[CHOOSE i \in 1..Len(available_robots) :
                        available_robots[i].robot_name = robot_name]

\* the robot has a purchase_price that is a number
HasUsablePrice(robot_name) ==
    InCatalog(robot_name) /\ CatalogRecord(robot_name).purchase_price.k = "num"

\* the replacement price of C22, by the words the name contains
ClaimedDefaultPrice(robot_name) ==
    LET words == KeywordsIn(robot_name)
    IN  IF "atlas" \in words THEN 250000
        ELSE IF "jvrc" \in words THEN 150000
        ELSE IF "digit" \in words THEN 200000
        ELSE IF "ggc" \in words \/ "testmodel" \in words THEN 180000
        ELSE 100000

ClaimedPrice(robot_name) ==
    IF HasUsablePrice(robot_name) THEN CatalogRecord(robot_name).purchase_price.v
    ELSE R(ClaimedDefaultPrice(robot_name))

\* the end effector percentage of C24: the record's number, 0.25 without one
HasPercent(robot_name) ==
    InCatalog(robot_name) /\ CatalogRecord(robot_name).end_effector_cost_percent.k = "num"

ClaimedPercent(robot_name) ==
    IF HasPercent(robot_name) THEN CatalogRecord(robot_name).end_effector_cost_percent.v
    ELSE Frac(1, 4)

ClaimedRobotTotal(robot_name) ==
    RMul(ClaimedPrice(robot_name), RAdd(R(1), ClaimedPercent(robot_name)))

\* C22: a referenced robot without a usable purchase_price (absent, null,
\* non-numeric, or the robot is not in the catalog) never contributes 0 to the
\* CAPEX of the option: its price is 250000 if its name contains "atlas", else
\* 150000 if "jvrc", else 200000 if "digit", else 180000 if "ggc" or
\* "testmodel", else 100000.  Stated for the options that refer to one robot.
C22_DefaultPurchasePrice ==
    EveryOptionEvaluated =>
       \A k \in 1..Len(automation_options) :
          \A r \in ReferencedRobots(automation_options[k]) :
             ( /\ ReferencedRobots(automation_options[k]) = {r}
               /\ ~HasUsablePrice(r) )
             => /\ recommendation.annual_projections[k].robot_capex
                      = ClaimedRobotTotal(r)
                /\ RPos(recommendation.annual_projections[k].robot_capex)

\* the sum of price*(1+E) over a set of robot names
RECURSIVE ClaimedCapexOf(_)
ClaimedCapexOf(robot_names) ==
    IF robot_names = {} THEN R(0)
    ELSE LET r == CHOOSE x \in robot_names : TRUE
         IN  RAdd(ClaimedRobotTotal(r), ClaimedCapexOf(robot_names \ {r}))

\* the options of the run have pairwise different ids
DistinctOptionIds ==
    \A a, b \in 1..Len(automation_options) :
       a # b => OptGetId(automation_options[a]) # OptGetId(automation_options[b])

\* C23: for every option robot_capex is the sum of price*(1+E) over the
\* distinct robot names its assignments refer to: a robot of several
\* assignments counts once, robots of the catalog that are not referred to
\* add nothing, and an option without assignments has robot_capex 0.  Stated
\* for runs whose options have pairwise different ids.
C23_CapexOverDistinctRobots ==
    (EveryOptionEvaluated /\ DistinctOptionIds) =>
       \A k \in 1..Len(automation_options) :
          /\ recommendation.annual_projections[k].robot_capex
                = ClaimedCapexOf(ReferencedRobots(automation_options[k]))
          /\ OptAssignments(automation_options[k]) = <<>> =>
                recommendation.annual_projections[k].robot_capex = R(0)

\* the robot has no end_effector_cost_percent: it is not in the catalog, its
\* record lacks the field, or the field is null
LacksPercent(robot_name) ==
    \/ ~InCatalog(robot_name)
    \/ CatalogRecord(robot_name).end_effector_cost_percent.k \in {"absent", "null"}

\* the effective cost calculate_effective_robot_cost gives with E = 0
CostWithoutEndEffector(robot_name) ==
    LET rec == CatalogRecord(robot_name)
        minutes == RMul(RMul(RMul(fin.t, R(52)), fin.h), R(60))
    IN  RDiv(RAdd(RDiv(rec.purchase_price.v, minutes), rec.op_cost_per_min.v),
             RAdd(R(1), fin.g))

\* C24: when a referenced robot has no end_effector_cost_percent (robot not in
\* the catalog, field missing, or field null) the CAPEX of the option uses
\* 0.25 for it and the projection is produced, whereas
\* calculate_effective_robot_cost uses 0 for the same robot.  Stated for the
\* options that refer to one robot, in runs whose options have different ids.
C24_DefaultEndEffectorPercent ==
    ( /\ entry = "selector"
      /\ pc = "done"
      /\ cost_benefit_results # <<>>
      /\ DistinctOptionIds )
    => \A k \in 1..Len(automation_options) :
          \A r \in ReferencedRobots(automation_options[k]) :
             ( /\ ReferencedRobots(automation_options[k]) = {r}
               /\ LacksPercent(r) )
             => /\ recommendation.exc = "ok"
                /\ Len(recommendation.annual_projections) = Len(automation_options)
                /\ recommendation.annual_projections[k].robot_capex
                      = RMul(ClaimedPrice(r), Frac(5, 4))
                /\ ( /\ HasUsablePrice(r)
                     /\ CatalogRecord(r).op_cost_per_min.k = "num" )
                   => cost_benefit_results[k].robot_cost_comparison[1]
                         .robot_effective_cost_per_human_min
                         = Num(CostWithoutEndEffector(r))

\* floor(T) for the depreciation years of the run
FloorOfYears ==
    CHOOSE n \in 0..Abs(fin.t[1]) : RLe(R(n), fin.t) /\ RLt(fin.t, R(n + 1))

\* C25: for every option cumulative_costs_by_year and
\* baseline_cumulative_costs_by_year have floor(T)+1 entries, for the years
\* 0..floor(T): robot_capex and 0 for year 0, robot_capex +
\* annual_cost_with_automation*y and annual_baseline_cost*y for year y >= 1.
C25_CumulativeCostsByYear ==
    SelectorReturned =>
       \A i \in 1..Len(recommendation.annual_projections) :
          LET p == recommendation.annual_projections[i]
              cum == p.cumulative_costs_by_year
              base == p.baseline_cumulative_costs_by_year
          IN  /\ Len(cum) = FloorOfYears + 1
              /\ Len(base) = FloorOfYears + 1
              /\ cum[1] = p.robot_capex
              /\ base[1] = R(0)
              /\ \A y \in 1..FloorOfYears :
                    /\ cum[y + 1] = RAdd(p.robot_capex,
                                         RMul(p.annual_cost_with_automation, R(y)))
                    /\ base[y + 1] = RMul(p.annual_baseline_cost, R(y))

\* A projection over a fractional number of years, with a CAPEX and annual
\* costs that are not zero
C25_Witness ==
    /\ SelectorReturned
    /\ fin.t = Frac(5, 2)
    /\ \E i \in 1..Len(recommendation.annual_projections) :
          LET p == recommendation.annual_projections[i]
          IN  /\ RPos(p.robot_capex)
              /\ RPos(p.annual_cost_with_automation)
              /\ RPos(p.annual_baseline_cost)
              /\ p.annual_cost_with_automation # p.annual_baseline_cost
              /\ Len(p.cumulative_costs_by_year) = 3

\* the values the collaborators handed to perform_full_analysis
ReceivedInputs == <<tasks, available_robots, automation_options>>

\* lines 604-687: the stages that follow the option generator
AfterGeneration == pc \in {"compare", "recommend", "return"}

PayloadCarriesInputs ==
    service_result.kind = "complete" =>
        /\ service_result.process_tasks = tasks.items
        /\ service_result.available_robots = available_robots
        /\ service_result.automation_options = automation_options

\* C26: the cost comparison, the savings projection and the recommendation
\* leave the task list, the robot records and the automation options as they
\* were received, and process_tasks, available_robots and automation_options
\* of the final payload are those received values.
C26_InputsUnchanged ==
    /\ [][AfterGeneration => UNCHANGED ReceivedInputs]_vars
    /\ []PayloadCarriesInputs

C26_Witness ==
    /\ pc = "done"
    /\ service_result.kind = "complete"
    /\ automation_options # <<>>
    /\ \E i \in 1..Len(tasks.items) : tasks.items[i].actor_type # "human"
    /\ service_result.process_tasks = tasks.items
    /\ service_result.automation_options = automation_options

\* option k assigns a human task to a catalog robot whose numeric effective
\* cost is below the human cost
AssignsCheaperRobot(k) ==
    LET assignments == automation_options[k].assignments
    IN  \E a \in 1..Len(assignments) :
           /\ assignments[a].task_id \in HumanTaskIds
           /\ assignments[a].robot_name \in CatalogNames
           /\ \E c \in NumericCostsOf(k, assignments[a].robot_name) : RLt(c, fin.oh)

\* option k has no assignment of a human task, or no robot with a numeric cost
NothingToGain(k) ==
    LET assignments == automation_options[k].assignments
    IN  \/ \A a \in 1..Len(assignments) : assignments[a].task_id \notin HumanTaskIds
        \/ \A a \in 1..Len(assignments) :
              NumericCostsOf(k, assignments[a].robot_name) = {}

\* option k is the option the returned id finds (lines 187-191: the first
\* option of the list with that id)
IsRecommended(k) ==
    /\ recommendation.recommended_option_id # "No_Automation"
    /\ OptGetId(automation_options[k]) = recommendation.recommended_option_id
    /\ \A j \in 1..(k - 1) :
          OptGetId(automation_options[j]) # recommendation.recommended_option_id

\* C27: an option is returned as recommended_option_id only if it assigns at
\* least one human task of the process to a catalog robot whose numeric
\* effective cost is strictly below human_cost_per_min; an option with no
\* assignments, with assignments only to non-human or unknown task ids, or
\* whose robots all have cost "N/A" has savings 0 and is never recommended.
C27_RecommendedOnlyWithCheaperRobot ==
    EveryOptionEvaluated =>
       \A k \in 1..Len(automation_options) :
          /\ IsRecommended(k) => AssignsCheaperRobot(k)
          /\ NothingToGain(k) =>
                /\ recommendation.option_savings[k].savings_per_cycle = R(0)
                /\ recommendation.option_savings[k].annual_savings = R(0)
                /\ ~IsRecommended(k)

\* what C28 gives for the annual baseline cost
ClaimedAnnualBaseline ==
    RMul(RMul(RMul(fin.oh, R(60)), fin.h), R(52))

MaximalSavings ==
    LET sv == recommendation.option_savings
        pos == {i \in 1..Len(sv) : RPos(sv[i].annual_savings)}
    IN  {i \in pos : \A j \in pos : RLe(sv[j].annual_savings, sv[i].annual_savings)}

FirstMaximal == CHOOSE i \in MaximalSavings : \A j \in MaximalSavings : i <= j

\* C29: when several options share the same maximal positive annual_savings,
\* the one that comes first in the option list is recommended; a later option
\* replaces the current best only if its annual_savings is strictly greater.
C29_FirstOfTiedOptions ==
    (EveryOptionEvaluated /\ Cardinality(MaximalSavings) >= 2) =>
       recommendation.recommended_option_id =
          recommendation.option_savings[FirstMaximal].option_id

\* the assignments of option k whose task_id is not the id of a human task
NonHumanAssignments(k) ==
    LET assignments == automation_options[k].assignments
    IN  {a \in 1..Len(assignments) : assignments[a].task_id \notin HumanTaskIds}

\* the task ids of option k, human or not, whose robot is cheaper than a
\* person
TasksWithCheaperRobot(k) ==
    LET assignments == automation_options[k].assignments
    IN  {assignments[a].task_id : a \in
            {x \in 1..Len(assignments) :
                /\ \A y \in AssignmentsOfTask(k, assignments[x].task_id) : y <= x
                /\ \E c \in NumericCostsOf(k, assignments[x].robot_name) :
                      RLt(c, fin.oh)}}

ComparedRobots(k) ==
    LET cmp == cost_benefit_results[k].robot_cost_comparison
    IN  {cmp[j].robot_name : j \in 1..Len(cmp)}

\* C30: an assignment whose task_id is not the id of a human task changes
\* neither the per-cycle baseline cost, the per-cycle automated cost nor the
\* savings of its option, which are those of its human tasks; it is counted
\* in num_automated_tasks, its robot is included in robot_capex and in the
\* cost comparison, and it is counted in num_tasks_with_savings when its
\* robot is cheaper than a person.
C30_NonHumanAssignmentsKept ==
    EveryOptionEvaluated =>
       \A k \in 1..Len(automation_options) :
          NonHumanAssignments(k) # {} =>
             LET p == recommendation.annual_projections[k]
                 sv == recommendation.option_savings[k]
                 assignments == automation_options[k].assignments
             IN  /\ p.baseline_cost_per_cycle = ClaimedBaselineCost
                 /\ p.robot_cost_per_cycle = ClaimedAutomatedCost(k)
                 /\ sv.savings_per_cycle =
                       RSub(ClaimedBaselineCost, ClaimedAutomatedCost(k))
                 /\ sv.num_automated_tasks = Len(assignments)
                 /\ p.robot_capex =
                       ClaimedCapexOf(ReferencedRobots(automation_options[k]))
                 /\ \A a \in NonHumanAssignments(k) :
                       assignments[a].robot_name \in ComparedRobots(k)
                 /\ sv.num_tasks_with_savings =
                       Cardinality(TasksWithCheaperRobot(k))

====
